---- MODULE Spec2Model ----
(***************************************************************************)
(* Model of the agent orchestration runtime of flexi-deep-research:        *)
(* the shared ResearchState and its reducers (flexi/core/state.py) and the *)
(* LangGraph built by DynamicResearchSystemBuilder                         *)
(* (flexi/agents/graph_builder.py): supervisor_executor, router,           *)
(* agent_executor and the star / single-agent topologies; and the JSON-RPC *)
(* stdio client of the tool servers, MCPClient (flexi/core/mcp_client.py). *)
(*                                                                         *)
(* Text is modelled as a sequence of tokens.  A message of the shared log  *)
(* is a record [type, name, content, tool_calls, tool_call_id].            *)
(***************************************************************************)
EXTENDS Integers, Sequences, FiniteSets, TLC

VARIABLES
    config,              \* ArchitectConfig: agents (ordered), complexity, per-role tools and dependencies
    pc,                  \* node the graph runs next: "supervisor", a role, "END", or "error"
    step,                \* supersteps executed so far (bounded by recursion_limit)
    messages,            \* ResearchState.messages
    current_agent,       \* ResearchState.current_agent
    supervisor_decision, \* ResearchState.supervisor_decision
    findings,            \* ResearchState.findings
    stats,               \* ResearchState.stats
    iteration_count,     \* ResearchState.iteration_count
    max_iterations,      \* ResearchState.max_iterations
    next_tasks,          \* ResearchState.next_tasks
    active_branches,     \* ResearchState.active_branches
    completed_branches,  \* ResearchState.completed_branches
    sent_messages,       \* the message list handed to the most recent llm.invoke
    input,               \* argument of a function applied in isolation
    output,              \* its result, <<>> until applied
    client,              \* MCPClient: request_id, _lock, process stdin/stdout, response_queue
    callers              \* the threads calling MCPClient.send_request: position and outcomes

vars == <<config, pc, step, messages, current_agent, supervisor_decision,
          findings, stats, iteration_count, max_iterations, next_tasks,
          active_branches, completed_branches, sent_messages, input, output,
          client, callers>>

-----------------------------------------------------------------------------
(* Bounds of the model *)

\* largest value drawn for the barrier counters of the state a graph is invoked on
MaxBranches == 2
\* longest supervisor reply (in tokens) drawn when the parser is applied in isolation
MaxReplyLen == 3
\* most log entries (turns, replies, caller messages) after the question in a
\* shared log drawn when an executor is applied in isolation
MaxTurns == 3
\* most tool calls one response requests when one role turn is run in isolation
MaxCalls == 2
\* most responses in a row that request tool calls in such a turn
MaxRounds == 5
\* most calls of send_request made on one client
MaxRequests == 3

\* the server writes at most MaxMalformed lines that are not JSON
MaxMalformed == 1

\* a text given to the reasoning pruning has at most MaxTextLen tokens
MaxTextLen == 4

\* a decision line lists at most MaxSegments comma-separated segments
MaxSegments == 2

\* a multi-line supervisor reply has at most MaxLines lines
MaxLines == 2

\* counters given to a reducer range over -MaxCount..MaxCount and None
MaxCount == 3

-----------------------------------------------------------------------------
(* Values *)

None == "None"
END == "END"
supervisor_role == "supervisor"
research_question == <<"Q">>

Max(a, b) == IF a >= b THEN a ELSE b

Range(s) == {s[i] : i \in 1..Len(s)}

SeqsUpTo(S, n) == UNION {[1..k -> S] : k \in 0..n}

Msg(type, name, content) ==
    [type |-> type, name |-> name, content |-> content,
     tool_calls |-> <<>>, tool_call_id |-> ""]

HumanMessage(content) == Msg("human", None, content)
SystemMessage(content) == Msg("system", None, content)
AIMessage(content, name) == Msg("ai", name, content)
ToolMessage(content, id) ==
    [type |-> "tool", name |-> None, content |-> content,
     tool_calls |-> <<>>, tool_call_id |-> id]

-----------------------------------------------------------------------------
(* Python dicts keep insertion order: a dict is a sequence of <<key, value>> *)
(* pairs with distinct keys.                                                *)

Keys(d) == {d[i][1] : i \in 1..Len(d)}

Get(d, k) == d[CHOOSE i \in 1..Len(d) : d[i][1] = k][2]

Put(d, k, v) ==
    IF k \in Keys(d)
    THEN [i \in 1..Len(d) |-> IF d[i][1] = k THEN <<k, v>> ELSE d[i]]
    ELSE Append(d, <<k, v>>)

RECURSIVE DictUpdate(_, _)
DictUpdate(left, right) ==
    IF right = <<>> THEN left
    ELSE DictUpdate(Put(left, right[1][1], right[1][2]), Tail(right))

-----------------------------------------------------------------------------
(* flexi/core/state.py: the reducers *)

\* merge_findings that keeps only the update
merge_findings_replace(left, right) == right

\* merge_findings that never overwrites a key already present
merge_findings_keep_first(left, right) ==
    left \o SelectSeq(right, LAMBDA e : e[1] \notin Keys(left))

merge_findings(left, right) == DictUpdate(left, right)

\* merge_stats that keeps only the update
merge_stats_replace(left, right) == right

merge_stats(left, right) == left \o right

\* a channel value that is None (or was never set)
Missing(x) == ToString(x) = ToString(None)

\* Python's `x or 0` on a counter
or_zero(x) == IF Missing(x) THEN 0 ELSE x

\* increment_counter without the reset signal
increment_counter_no_reset(left, right) == or_zero(left) + or_zero(right)

increment_counter(left, right) ==
    IF ~Missing(right) /\ right = -1 THEN 0 ELSE or_zero(left) + or_zero(right)

reduce_current_agent(left, right) ==
    IF right # "" THEN right ELSE left

reduce_sum_iterations(left, right) == or_zero(left) + or_zero(right)

reduce_max_iterations(left, right) == Max(or_zero(left), or_zero(right))

-----------------------------------------------------------------------------
(* Text as tokens.  "NL" is a line break; tokens are separated by blanks.   *)

\* the double-quote character
Q == "\""

Punctuation == {",", ":", "NL", Q, "'"}

\* a role name in square brackets
Bracketed == {"[r1]", "[r2]"}

\* the longest run of word characters (\w+) a token starts with, "" if none
WordPrefix(tok) ==
    CASE tok = "NEXT:" -> "NEXT"
      [] tok = "next:" -> "next"
      [] tok = "PARALLEL:" -> "PARALLEL"
      [] tok = "parallel:" -> "parallel"
      [] tok \in Punctuation \cup Bracketed -> ""
      [] OTHER -> tok

\* str.upper() of a token
Upper(tok) ==
    CASE tok = "next:" -> "NEXT:"
      [] tok = "parallel:" -> "PARALLEL:"
      [] tok = "finish" -> "FINISH"
      [] OTHER -> tok

\* index of the first token after position i that is not white space, 0 if none
RECURSIVE NextNonSpace(_, _)
NextNonSpace(content, i) ==
    IF i + 1 > Len(content) THEN 0
    ELSE IF content[i + 1] = "NL" THEN NextNonSpace(content, i + 1)
    ELSE i + 1

\* positions where the pattern NEXT:\s*(\w+) matches
NextMatches(content) ==
    {i \in 1..Len(content) :
        /\ content[i] = "NEXT:"
        /\ NextNonSpace(content, i) # 0
        /\ WordPrefix(content[NextNonSpace(content, i)]) # ""}

\* re.search(r'NEXT:\s*(\w+)', content).group(1), None if there is no match
SearchNext(content) ==
    IF NextMatches(content) = {} THEN None
    ELSE LET i == CHOOSE m \in NextMatches(content) :
                      \A n \in NextMatches(content) : m <= n
         IN WordPrefix(content[NextNonSpace(content, i)])

\* "FINISH" in content.upper()
HasFinish(content) == \E i \in 1..Len(content) : Upper(content[i]) = "FINISH"

-----------------------------------------------------------------------------
(* tests/unit/test_supervisor_parsing.py: mock_parse_decision, the decision *)
(* grammar the tests document for the supervisor's reply                    *)

\* content.split("\n"), each line stripped, empty lines dropped
RECURSIVE Lines(_)
Lines(content) ==
    LET brk == {i \in 1..Len(content) : content[i] = "NL"} IN
    IF brk = {} THEN (IF content = <<>> THEN <<>> ELSE <<content>>)
    ELSE LET i == CHOOSE m \in brk : \A n \in brk : m <= n
             head == SubSeq(content, 1, i - 1)
         IN (IF head = <<>> THEN <<>> ELSE <<head>>)
            \o Lines(SubSeq(content, i + 1, Len(content)))

StartsWith(line, prefix) == line # <<>> /\ Upper(line[1]) = prefix

FirstLineWith(lines, prefix) ==
    LET at == {i \in 1..Len(lines) : StartsWith(lines[i], prefix)}
    IN IF at = {} THEN <<>> ELSE lines[CHOOSE m \in at : \A n \in at : m <= n]

decision_line(content) ==
    LET lines == Lines(content) IN
    IF FirstLineWith(lines, "PARALLEL:") # <<>> THEN FirstLineWith(lines, "PARALLEL:")
    ELSE IF FirstLineWith(lines, "NEXT:") # <<>> THEN FirstLineWith(lines, "NEXT:")
    ELSE IF lines # <<>> THEN lines[1] ELSE <<>>

\* the loop that removes leading NEXT: and PARALLEL: prefixes
RECURSIVE parser_line(_)
parser_line(line) ==
    IF StartsWith(line, "NEXT:") \/ StartsWith(line, "PARALLEL:")
    THEN parser_line(Tail(line))
    ELSE line

\* number of double quotes from position i to the end
RECURSIVE QuotesFrom(_, _)
QuotesFrom(line, i) ==
    IF i > Len(line) THEN 0
    ELSE (IF line[i] = Q THEN 1 ELSE 0) + QuotesFrom(line, i + 1)

\* the split at every comma, quoted or not
RECURSIVE split_every_comma(_)
split_every_comma(blob) ==
    LET at == {i \in 1..Len(blob) : blob[i] = ","} IN
    IF at = {} THEN <<blob>>
    ELSE LET i == CHOOSE m \in at : \A n \in at : m <= n
         IN <<SubSeq(blob, 1, i - 1)>> \o split_every_comma(SubSeq(blob, i + 1, Len(blob)))

\* re.split(r',\s*(?=[^"]*(?:"[^"]*"[^"]*)*$)', blob): commas outside quotes
RECURSIVE SplitTopLevel(_)
SplitTopLevel(blob) ==
    LET at == {i \in 1..Len(blob) : blob[i] = "," /\ QuotesFrom(blob, i + 1) % 2 = 0} IN
    IF at = {} THEN <<blob>>
    ELSE LET i == CHOOSE m \in at : \A n \in at : m <= n
         IN <<SubSeq(blob, 1, i - 1)>> \o SplitTopLevel(SubSeq(blob, i + 1, Len(blob)))

ColonTokens == {":", "NEXT:", "next:", "PARALLEL:", "parallel:"}

\* str.strip("[]") of an agent name
StripBrackets(tok) ==
    CASE tok = "[r1]" -> "r1"
      [] tok = "[r2]" -> "r2"
      [] OTHER -> tok

\* str.strip('"').strip("'") of an instruction
RECURSIVE StripQuotes(_)
StripQuotes(text) ==
    IF text # <<>> /\ text[1] \in {Q, "'"} THEN StripQuotes(Tail(text))
    ELSE IF text # <<>> /\ text[Len(text)] \in {Q, "'"}
         THEN StripQuotes(SubSeq(text, 1, Len(text) - 1))
    ELSE text

default_instruction == <<"Proceed with assigned research task.">>

\* the task a comma-separated part yields, if any
part_tasks(part, roles) ==
    LET colons == {i \in 1..Len(part) : part[i] \in ColonTokens} IN
    IF colons # {}
    THEN LET i == CHOOSE m \in colons : \A n \in colons : m <= n
             agent_part == SubSeq(part, 1, i - 1)
                           \o (IF part[i] = ":" THEN <<>> ELSE <<WordPrefix(part[i])>>)
         IN IF Len(agent_part) = 1 /\ StripBrackets(agent_part[1]) \in roles
            THEN <<[agent |-> StripBrackets(agent_part[1]),
                    instruction |-> StripQuotes(SubSeq(part, i + 1, Len(part)))]>>
            ELSE <<>>
    ELSE IF Len(part) = 1 /\ StripBrackets(part[1]) \in roles
         THEN <<[agent |-> StripBrackets(part[1]), instruction |-> default_instruction]>>
         ELSE <<>>

RECURSIVE parts_tasks(_, _)
parts_tasks(parts, roles) ==
    IF parts = <<>> THEN <<>>
    ELSE part_tasks(parts[1], roles) \o parts_tasks(Tail(parts), roles)

\* the first run of word characters anywhere in a token, "" if none
FirstWord(tok) == IF tok \in Bracketed THEN StripBrackets(tok) ELSE WordPrefix(tok)

\* first word the pattern (?:NEXT:|PARALLEL:)?\s*(\w+) captures in the line
generic_candidate(line) ==
    LET words == {i \in 1..Len(line) : FirstWord(line[i]) # ""} IN
    IF words = {} THEN None
    ELSE LET i == CHOOSE m \in words : \A n \in words : m <= n IN
         IF i = 1 /\ Upper(line[i]) \in {"NEXT:", "PARALLEL:"}
            /\ i < Len(line) /\ WordPrefix(line[i + 1]) # ""
         THEN WordPrefix(line[i + 1])
         ELSE FirstWord(line[i])

mock_parse_decision(content, roles) ==
    LET dline == decision_line(content)
        pline == parser_line(dline)
        is_parallel_prefix == \E i \in 1..Len(dline) : Upper(dline[i]) = "PARALLEL:"
        has_comma == \E i \in 1..Len(pline) : pline[i] = ","
        tasks == IF is_parallel_prefix \/ has_comma
                 THEN parts_tasks(SplitTopLevel(pline), roles)
                 ELSE <<>>
    IN [next_agent |->
            IF tasks # <<>> THEN "PARALLEL"
            ELSE IF Len(pline) = 1 /\ pline[1] \in roles THEN pline[1]
            ELSE IF generic_candidate(dline) \in roles THEN generic_candidate(dline)
            ELSE None,
        next_tasks |-> tasks]

-----------------------------------------------------------------------------
(* flexi/agents/graph_builder.py: plan, formatting, supervisor *)

complexity_map(complexity) ==
    CASE complexity = "simple" -> 5
      [] complexity = "moderate" -> 15
      [] complexity = "complex" -> 25
      [] OTHER -> 15

recursion_limit(complexity) == (complexity_map(complexity) * 3) + 10

has_supervisor(cfg) == supervisor_role \in Range(cfg.agents)

\* [r for r in self.config.agents.keys() if r != supervisor_role]
subordinate_roles(cfg) == SelectSeq(cfg.agents, LAMBDA r : r # supervisor_role)

\* content[:500] + "..." if len(content) > 500 else content
TruncateAt == 500

Truncate(content) ==
    IF Len(content) > TruncateAt
    THEN SubSeq(content, 1, TruncateAt) \o <<"...">>
    ELSE content

RECURSIVE FormatEntries(_)
FormatEntries(d) ==
    IF d = <<>> THEN <<>>
    ELSE <<"NL", "[", d[1][1], "]:", "NL">> \o Truncate(d[1][2]) \o <<"NL">>
         \o FormatEntries(Tail(d))

\* format_findings that stops after the first entry of the ledger
format_findings_first(d) ==
    IF d = <<>> THEN <<"(No previous findings yet)">> ELSE FormatEntries(<<d[1]>>)

format_findings(d) ==
    IF d = <<>> THEN <<"(No previous findings yet)">> ELSE FormatEntries(d)

\* parse_decision without the membership test on the candidate
parse_decision_unchecked(content, subordinates) ==
    LET candidate == SearchNext(content)
    IN IF HasFinish(content) /\ candidate = None THEN END ELSE candidate

\* parse_decision with FINISH overriding an extracted role
parse_decision_finish_first(content, subordinates) ==
    LET candidate == SearchNext(content)
        next_agent == IF candidate \in Range(subordinates) THEN candidate ELSE None
    IN IF HasFinish(content) THEN END ELSE next_agent

\* the parse of the supervisor's reply: next_agent
parse_decision(content, subordinates) ==
    LET candidate == SearchNext(content)
        next_agent == IF candidate \in Range(subordinates) THEN candidate ELSE None
    IN IF HasFinish(content) /\ next_agent = None THEN END ELSE next_agent

\* the messages the supervisor's model is invoked on
supervisor_input(cfg, st) ==
    <<SystemMessage(<<"system_prompt", supervisor_role, "AVAILABLE AGENTS:">>
                    \o subordinate_roles(cfg)),
      AIMessage(<<"CURRENT FINDINGS:", "NL">> \o format_findings(st.findings),
                "ResearchLedger"),
      HumanMessage(<<"RESEARCH QUESTION:">> \o st.research_question
                   \o <<"CURRENT PROGRESS:", "Iteration",
                        ToString(st.iteration_count), "of",
                        ToString(st.max_iterations)>>
                   \o (IF st.max_iterations - st.iteration_count <= 2
                       THEN <<"WARNING: Budget nearly exhausted",
                              ToString(st.max_iterations - st.iteration_count)>>
                       ELSE <<>>))>>

\* the state update supervisor_executor returns for the reply content
supervisor_executor(cfg, st, content) ==
    [messages |-> <<AIMessage(content, None)>>,
     supervisor_decision |-> parse_decision(content, subordinate_roles(cfg)),
     current_agent |-> supervisor_role,
     stats |-> <<[agent |-> supervisor_role,
                  iteration_count |-> st.iteration_count]>>]

\* router without the budget guardrail
router_no_budget(st) ==
    IF st.supervisor_decision = END
       \/ st.supervisor_decision = None
       \/ st.supervisor_decision = ""
    THEN END
    ELSE st.supervisor_decision

\* router that asks the supervisor again when no decision was parsed
router_retry(st) ==
    IF st.iteration_count >= st.max_iterations THEN END
    ELSE IF st.supervisor_decision = END THEN END
    ELSE IF st.supervisor_decision = None \/ st.supervisor_decision = ""
         THEN supervisor_role
         ELSE st.supervisor_decision

\* router whose guardrail lets one more dispatch through
router_budget_late(st) ==
    IF st.iteration_count > st.max_iterations THEN END
    ELSE IF st.supervisor_decision = END
            \/ st.supervisor_decision = None
            \/ st.supervisor_decision = ""
         THEN END
         ELSE st.supervisor_decision

\* the conditional edge leaving the supervisor
router(st) ==
    IF st.iteration_count >= st.max_iterations THEN END
    ELSE IF st.supervisor_decision = END
            \/ st.supervisor_decision = None
            \/ st.supervisor_decision = ""
         THEN END
         ELSE st.supervisor_decision

\* exit edge of a subordinate wired back to the subordinate itself
agent_edge_self(cfg, role) ==
    IF has_supervisor(cfg) THEN role ELSE END

\* agent_edge with the exit of every role returning to the supervisor node
agent_edge_to_supervisor(cfg, role) == supervisor_role

\* agent_edge with the exit of every role wired to the terminal node
agent_edge_end(cfg, role) == END

\* the static edge leaving a subordinate (star) or the sole agent (single)
agent_edge(cfg, role) ==
    IF has_supervisor(cfg) THEN supervisor_role ELSE END

-----------------------------------------------------------------------------
(* flexi/agents/graph_builder.py: agent_executor *)

\* tools_registry.tools: the names registered in the tool registry
RegisteredTools == {"t1"}

\* the last message of the log that is neither a system nor an AI message
last_non_assistant(msgs) ==
    LET others == {i \in 1..Len(msgs) : msgs[i].type \notin {"system", "ai"}}
    IN IF others = {} THEN None
       ELSE msgs[CHOOSE i \in others : \A j \in others : j <= i].content

\* the last HumanMessage of the log, None if there is none
get_last_supervisor_instruction(msgs) ==
    LET humans == {i \in 1..Len(msgs) : msgs[i].type = "human"}
    IN IF humans = {} THEN None
       ELSE msgs[CHOOSE i \in humans : \A j \in humans : j <= i].content

\* my_history keeping every tool message of the log
my_history_every_tool(msgs, agent_name, i, is_my_msg) ==
    SelectSeq(msgs, LAMBDA m : \/ (m.type = "ai" /\ m.name = agent_name)
                               \/ m.type = "tool")

\* STEP 2.5: the agent's own AI messages and the tool messages that follow them
RECURSIVE my_history(_, _, _, _)
my_history(msgs, agent_name, i, is_my_msg) ==
    IF i > Len(msgs) THEN <<>>
    ELSE LET msg == msgs[i] IN
         IF msg.type = "system" THEN my_history(msgs, agent_name, i + 1, is_my_msg)
         ELSE IF msg.type = "ai"
              THEN IF msg.name = agent_name
                   THEN <<msg>> \o my_history(msgs, agent_name, i + 1, TRUE)
                   ELSE my_history(msgs, agent_name, i + 1, FALSE)
         ELSE IF msg.type = "tool" /\ is_my_msg
              THEN <<msg>> \o my_history(msgs, agent_name, i + 1, is_my_msg)
              ELSE my_history(msgs, agent_name, i + 1, is_my_msg)

\* relevant_findings without the dependency filter
relevant_findings_all(cfg, agent_name, d) == d

\* STEP 3: {k: v for k, v in findings.items() if k in context_dependencies}
relevant_findings(cfg, agent_name, d) ==
    SelectSeq(d, LAMBDA e : e[1] \in cfg.context_dependencies[agent_name])

\* STEPS 1-5: the message list the agent's model is first invoked on
agent_input(cfg, st, agent_name) ==
    LET tools == cfg.tools[agent_name]
        tools_context ==
            IF tools # <<>>
            THEN <<"You have access to these tools:">>
                 \o SelectSeq(tools, LAMBDA t : t \in RegisteredTools)
            ELSE <<"No tools available.">>
        system_message ==
            SystemMessage(<<"system_prompt", agent_name>> \o tools_context)
        relevant == relevant_findings(cfg, agent_name, st.findings)
        context_provider ==
            IF relevant # <<>>
            THEN <<AIMessage(<<"CONTEXT FROM PRIOR AGENTS:", "NL">>
                             \o format_findings(relevant), "ContextProvider")>>
            ELSE <<>>
        prior_work ==
            IF agent_name \in Keys(st.findings)
            THEN <<AIMessage(<<"Your previous work on this task:">>
                             \o Get(st.findings, agent_name), agent_name)>>
            ELSE <<>>
        last_instruction == get_last_supervisor_instruction(st.messages)
        task_content ==
            <<"RESEARCH QUESTION:">> \o st.research_question
            \o (IF last_instruction # None /\ last_instruction # <<>>
                THEN <<"SUPERVISOR'S INSTRUCTION:">> \o last_instruction
                ELSE <<>>)
    IN <<system_message>>
       \o my_history(st.messages, agent_name, 1, FALSE)
       \o context_provider \o prior_work
       \o <<HumanMessage(task_content)>>

\* the directive part of the task (human) message of an assembled input
Directive(assembled) ==
    LET humans == {i \in 1..Len(assembled) : assembled[i].type = "human"}
        task == assembled[CHOOSE i \in humans : TRUE].content
        at == {i \in 1..Len(task) : task[i] = "SUPERVISOR'S INSTRUCTION:"}
    IN IF at = {} THEN None
       ELSE SubSeq(task, (CHOOSE i \in at : \A j \in at : i <= j) + 1, Len(task))

\* tools_registry.call_tool inside the try/except: one ToolMessage per call
tool_result(call) ==
    IF call.name \in RegisteredTools /\ ~call.raises
    THEN ToolMessage(<<"result", call.name>>, call.id)
    ELSE ToolMessage(<<"Error executing tool:", call.name>>, call.id)

\* tool_results that gives up the remaining calls after the first failure
tool_results_until_error(calls) ==
    LET bad == {i \in 1..Len(calls) :
                   calls[i].name \notin RegisteredTools \/ calls[i].raises}
        last == IF bad = {} THEN Len(calls)
                ELSE CHOOSE i \in bad : \A j \in bad : i <= j
    IN [i \in 1..last |-> tool_result(calls[i])]

RECURSIVE tool_results(_)
tool_results(calls) ==
    IF calls = <<>> THEN <<>>
    ELSE <<tool_result(calls[1])>> \o tool_results(Tail(calls))

\* ceiling of the tool-calling loop
max_tool_iterations == 5

\* tool_loop that takes the first response as final and calls no tool
tool_loop_once(msgs, script, iteration, last) ==
    [messages |-> Append(msgs,
         [type |-> "ai", name |-> None, content |-> script[1].content,
          tool_calls |-> script[1].tool_calls, tool_call_id |-> ""]),
     final_response |-> script[1], iteration |-> 1, sent |-> msgs]

\* tool_loop that does not execute the tool calls of the response at the ceiling
RECURSIVE tool_loop_skip_last(_, _, _, _)
tool_loop_skip_last(msgs, script, iteration, last) ==
    IF ~(iteration < max_tool_iterations)
    THEN [messages |-> msgs, final_response |-> last, iteration |-> iteration,
          sent |-> <<>>]
    ELSE LET response == script[iteration + 1]
             appended == Append(msgs,
                 [type |-> "ai", name |-> None, content |-> response.content,
                  tool_calls |-> response.tool_calls, tool_call_id |-> ""])
             results == IF iteration + 1 < max_tool_iterations
                        THEN tool_results(response.tool_calls)
                        ELSE <<>>
         IN IF response.tool_calls = <<>>
            THEN [messages |-> appended, final_response |-> response,
                  iteration |-> iteration + 1, sent |-> msgs]
            ELSE LET rest == tool_loop_skip_last(appended \o results,
                                                 script, iteration + 1, response)
                 IN [rest EXCEPT !.sent = IF rest.sent = <<>> THEN msgs ELSE @]

\* STEP 6: the while loop; script[i] is the model's i-th response
RECURSIVE tool_loop(_, _, _, _)
tool_loop(msgs, script, iteration, last) ==
    IF ~(iteration < max_tool_iterations)
    THEN [messages |-> msgs, final_response |-> last, iteration |-> iteration,
          sent |-> <<>>]
    ELSE LET response == script[iteration + 1]
             appended == Append(msgs,
                 [type |-> "ai", name |-> None, content |-> response.content,
                  tool_calls |-> response.tool_calls, tool_call_id |-> ""])
         IN IF response.tool_calls = <<>>
            THEN [messages |-> appended, final_response |-> response,
                  iteration |-> iteration + 1, sent |-> msgs]
            ELSE LET rest == tool_loop(appended \o tool_results(response.tool_calls),
                                       script, iteration + 1, response)
                 IN [rest EXCEPT !.sent = IF rest.sent = <<>> THEN msgs ELSE @]

\* STEP 7: the state update agent_executor returns, with the last model input
agent_executor(cfg, st, agent_name, script) ==
    LET assembled == agent_input(cfg, st, agent_name)
        events_start_index == Len(assembled)
        run == tool_loop(assembled, script, 0, script[1])
        turn_events ==
            [i \in 1..(Len(run.messages) - events_start_index) |->
                LET msg == run.messages[events_start_index + i]
                IN IF msg.type = "ai" THEN [msg EXCEPT !.name = agent_name] ELSE msg]
    IN [messages |-> turn_events,
        findings |-> <<<<agent_name, run.final_response.content>>>>,
        current_agent |-> agent_name,
        stats |-> <<[agent |-> agent_name, iterations |-> run.iteration,
                     iteration_count |-> st.iteration_count]>>,
        iteration_count |-> st.iteration_count + 1,
        sent |-> run.sent]

-----------------------------------------------------------------------------
(* flexi/core/mcp_client.py: MCPClient *)

\* the threads that share one client
Threads == {"A", "B"}

\* MCPClient.__init__: no request sent, the lock free, the server process
\* running, the pipes and the queue empty.  stdin holds the requests written
\* and not yet answered by the server, stdout the lines the server wrote and
\* the reader has not read.
NewClient ==
    [request_id |-> 0, lock |-> None, process |-> "running", stdin |-> <<>>,
     stdout |-> <<>>, response_queue |-> <<>>,
     phase |-> "Connected", stdin_open |-> TRUE, unflushed |-> FALSE,
     shutdown |-> <<>>, lines_read |-> 0, warnings |-> <<>>]

\* the client before _start_process: the fields of __init__ set, no process
UnstartedClient == [NewClient EXCEPT !.phase = "Disconnected", !.process = "none"]

\* the order of the phases of a client
PhaseRank(phase) ==
    CASE phase = "Disconnected" -> 0
      [] phase = "Starting" -> 1
      [] phase = "Connected" -> 2
      [] phase = "Closed" -> 3

\* no thread is inside send_request and none has called it
NoCallers == [t \in Threads |-> [pc |-> "idle", id |-> 0, log |-> <<>>]]

\* threading.Lock.acquire without the wait for the holder to release
can_acquire_always(lock) == TRUE

\* with self._lock: the lock is taken only when no thread holds it
can_acquire(lock) == lock = None

\* the JSON-RPC request send_request builds; params names the call
request(id, params) == [jsonrpc |-> "2.0", id |-> id, params |-> params]

\* the response of the server to a request: its id echoed
response_to(req, error) ==
    [jsonrpc |-> "2.0", id |-> req.id, result |-> req.params, error |-> error]

\* a sequence without its i-th element
Remove(s, i) == SubSeq(s, 1, i - 1) \o SubSeq(s, i + 1, Len(s))

\* the content blocks of a tools/call result
Content(result) == <<[type |-> "text", text |-> result]>>

\* "\n".join of the text of the text blocks
RECURSIVE JoinText(_)
JoinText(blocks) ==
    IF blocks = <<>> THEN <<>>
    ELSE (IF blocks[1].type = "text" THEN blocks[1].text ELSE <<>>)
         \o (IF Len(blocks) > 1 THEN <<"NL">> ELSE <<>>)
         \o JoinText(Tail(blocks))

\* call_tool that lets the failure of send_request through
call_tool_propagates(name, outcome, result) ==
    IF outcome = "result"
    THEN [raised |-> FALSE, value |-> JoinText(Content(result))]
    ELSE [raised |-> TRUE, value |-> <<outcome>>]

\* MCPClient.call_tool on the outcome of its send_request: the text of the
\* result, or an error text when send_request raised
call_tool(name, outcome, result) ==
    IF outcome = "result"
    THEN [raised |-> FALSE, value |-> JoinText(Content(result))]
    ELSE [raised |-> FALSE, value |-> <<"Error calling tool", name, ":", outcome>>]

\* the wrapper MCPManager registers as the tool: the return value of call_tool,
\* or an error text when call_tool raised
mcp_tool_wrapper(name, called) ==
    IF called.raised
    THEN <<"Error calling MCP tool", name, ":">> \o called.value
    ELSE called.value

-----------------------------------------------------------------------------
(* The graph run: DynamicResearchSystemBuilder.build / run *)

\* the ResearchState the nodes and edges read
State ==
    [research_question |-> research_question,
     messages |-> messages,
     current_agent |-> current_agent,
     supervisor_decision |-> supervisor_decision,
     findings |-> findings,
     stats |-> stats,
     iteration_count |-> iteration_count,
     max_iterations |-> max_iterations,
     next_tasks |-> next_tasks,
     active_branches |-> active_branches,
     completed_branches |-> completed_branches]

Response(content, calls) == [content |-> content, tool_calls |-> calls]

ToolCall(name, id, raises) == [name |-> name, id |-> id, raises |-> raises]

\* plans the architect may emit
Plans ==
    {[agents |-> <<"supervisor", "r1", "r2">>, complexity |-> "simple",
      tools |-> [r \in {"r1", "r2"} |-> <<>>],
      context_dependencies |-> [r \in {"r1", "r2"} |->
                                   IF r = "r2" THEN {"r1"} ELSE {}]],
     [agents |-> <<"r1">>, complexity |-> "simple",
      tools |-> [r \in {"r1"} |-> <<"t1">>],
      context_dependencies |-> [r \in {"r1"} |-> {}]],
     [agents |-> <<"r2", "r1">>, complexity |-> "simple",
      tools |-> [r \in {"r1", "r2"} |-> <<>>],
      context_dependencies |-> [r \in {"r1", "r2"} |-> {}]]}

\* replies the supervisor's model gives during a run
SupervisorReplies ==
    {<<"NEXT:", "r1">>,
     <<"NEXT:", "r2", "NL", "because">>,
     <<"NEXT:", "r1", ":", Q, "A", Q, ",", "r2", ":", Q, "B", Q>>,
     <<"PARALLEL:", "r1", ":", Q, "A", Q, ",", "r2", ":", Q, "B", Q>>,
     <<"NEXT:", "zz">>,
     <<"unsure">>,
     <<"FINISH">>}

\* response sequences the model of an agent gives during one turn
AgentScripts(cfg, agent_name) ==
    {<<Response(<<"answer">>, <<>>)>>}
    \cup (IF cfg.tools[agent_name] # <<>>
          THEN {<<Response(<<"searching">>, <<ToolCall("t1", "c1", FALSE)>>),
                  Response(<<"found">>, <<>>)>>}
          ELSE {})

NoInput == <<>>

\* The state the compiled graph starts from: the initial_state of run(), which
\* leaves the barrier channels of ResearchState unset (read as 0).  build()
\* returns the graph, which also accepts a ResearchState with these channels
\* set, so their values are drawn; no node or edge of the graph writes them.
Init ==
    /\ config \in Plans
    /\ pc = IF has_supervisor(config) THEN supervisor_role ELSE config.agents[1]
    /\ step = 0
    /\ messages = <<HumanMessage(research_question)>>
    /\ current_agent = "START"
    /\ supervisor_decision = None
    /\ findings = <<>>
    /\ stats = <<>>
    /\ iteration_count = 0
    /\ max_iterations = complexity_map(config.complexity)
    /\ next_tasks = <<>>
    /\ active_branches \in 0..MaxBranches
    /\ completed_branches \in 0..MaxBranches
    /\ sent_messages = <<>>
    /\ input = NoInput
    /\ output = <<>>
    /\ client = NewClient
    /\ callers = NoCallers

\* the superstep that runs the supervisor node and its conditional edge
SupervisorTurn(content) ==
    /\ pc = supervisor_role
    /\ IF step >= recursion_limit(config.complexity)
       THEN /\ pc' = "error"
            /\ UNCHANGED <<step, messages, current_agent, supervisor_decision,
                           stats, sent_messages>>
       ELSE LET delta == supervisor_executor(config, State, content)
                merged == [State EXCEPT
                              !.supervisor_decision = delta.supervisor_decision,
                              !.iteration_count = iteration_count]
            IN /\ sent_messages' = supervisor_input(config, State)
               /\ messages' = messages \o delta.messages
               /\ supervisor_decision' = delta.supervisor_decision
               /\ current_agent' = reduce_current_agent(current_agent, delta.current_agent)
               /\ stats' = merge_stats(stats, delta.stats)
               /\ step' = step + 1
               /\ pc' = router(merged)
    /\ UNCHANGED <<config, findings, iteration_count, max_iterations, next_tasks,
                   active_branches, completed_branches, input, output>>
    /\ UNCHANGED <<client, callers>>

\* the superstep that runs one agent node and its outgoing edge
AgentTurn(agent_name, script) ==
    /\ pc = agent_name
    /\ agent_name \in Range(config.agents) \ {supervisor_role}
    /\ IF step >= recursion_limit(config.complexity)
       THEN /\ pc' = "error"
            /\ UNCHANGED <<step, messages, current_agent, findings, stats,
                           iteration_count, sent_messages>>
       ELSE LET delta == agent_executor(config, State, agent_name, script)
            IN /\ sent_messages' = delta.sent
               /\ messages' = messages \o delta.messages
               /\ findings' = merge_findings(findings, delta.findings)
               /\ current_agent' = reduce_current_agent(current_agent, delta.current_agent)
               /\ stats' = merge_stats(stats, delta.stats)
               /\ iteration_count' = reduce_max_iterations(iteration_count,
                                                           delta.iteration_count)
               /\ step' = step + 1
               /\ pc' = agent_edge(config, agent_name)
    /\ UNCHANGED <<config, supervisor_decision, max_iterations, next_tasks,
                   active_branches, completed_branches, input, output>>
    /\ UNCHANGED <<client, callers>>

Supervisor == \E content \in SupervisorReplies : SupervisorTurn(content)

\* the response of a model that revises the answer of the role's first turn,
\* which it may do in the second turn of the role
Revisions(agent_name) ==
    IF Cardinality({i \in 1..Len(stats) : stats[i].agent = agent_name}) = 1
    THEN {<<Response(<<"revised">>, <<>>)>>}
    ELSE {}

Agent ==
    \E agent_name \in Range(config.agents) \ {supervisor_role} :
        \E script \in AgentScripts(config, agent_name) \cup Revisions(agent_name) :
            AgentTurn(agent_name, script)

Next == Supervisor \/ Agent

Spec == Init /\ [][Next]_vars

\* what a turn writes when the completion call number `call` of its node
\* raises, with the responses of the earlier calls merged
raised_delta_partial(cfg, st, agent_name, script, call) ==
    LET delta == agent_executor(cfg, st, agent_name, SubSeq(script, 1, call))
    IN [messages |-> delta.messages, findings |-> delta.findings,
        stats |-> delta.stats]

\* what a turn writes when the completion call number `call` of its node
\* raises: run_llm.invoke is inside no try block, the node returns nothing
raised_delta(cfg, st, agent_name, script, call) ==
    [messages |-> <<>>, findings |-> <<>>, stats |-> <<>>]

\* llm.invoke raises in supervisor_executor: graph.invoke raises out of run()
SupervisorRaises ==
    /\ pc = supervisor_role
    /\ step < recursion_limit(config.complexity)
    /\ pc' = "raised"
    /\ UNCHANGED <<config, step, messages, current_agent, supervisor_decision,
                   findings, stats, iteration_count, max_iterations, next_tasks,
                   active_branches, completed_branches, sent_messages, input,
                   output>>
    /\ UNCHANGED <<client, callers>>

\* run_llm.invoke raises in the tool loop of agent_executor, at its first call
\* or after earlier calls of the turn returned tool calls
AgentRaises(agent_name, script, call) ==
    /\ pc = agent_name
    /\ agent_name \in Range(config.agents) \ {supervisor_role}
    /\ step < recursion_limit(config.complexity)
    /\ LET delta == raised_delta(config, State, agent_name, script, call)
       IN /\ messages' = messages \o delta.messages
          /\ findings' = merge_findings(findings, delta.findings)
          /\ stats' = merge_stats(stats, delta.stats)
    /\ pc' = "raised"
    /\ UNCHANGED <<config, step, current_agent, supervisor_decision,
                   iteration_count, max_iterations, next_tasks,
                   active_branches, completed_branches, sent_messages, input,
                   output>>
    /\ UNCHANGED <<client, callers>>

Raises ==
    \/ SupervisorRaises
    \/ \E agent_name \in Range(config.agents) \ {supervisor_role} :
           \E script \in AgentScripts(config, agent_name) :
               \E call \in 1..Len(script) :
                   AgentRaises(agent_name, script, call)

FailNext == Supervisor \/ Agent \/ Raises

\* runs in which a completion call may raise
\* the initial_state of run()
FailInit == Init /\ active_branches = 0 /\ completed_branches = 0

FailSpec == FailInit /\ [][FailNext]_vars

\* run(): the initial_state it builds leaves the barrier channels unset
RunInit == Init /\ active_branches = 0 /\ completed_branches = 0

\* every completion-service call returns: an enabled turn is eventually taken
FairSpec == RunInit /\ [][Next]_vars /\ WF_vars(Next)

-----------------------------------------------------------------------------
(* supervisor_executor applied in isolation to one reply, as the unit tests  *)
(* call it, followed by the router on the merged state                       *)

ParseTokens ==
    {"NEXT:", "next:", "PARALLEL:", "FINISH", "finish", "r1", "r2", "zz",
     ",", ":", "NL", Q}

ParsePlans ==
    {[agents |-> a, complexity |-> "simple",
      tools |-> [r \in Range(a) \ {supervisor_role} |-> <<>>],
      context_dependencies |-> [r \in Range(a) \ {supervisor_role} |-> {}]] :
        a \in {<<"supervisor", "r1", "r2">>, <<"supervisor", "r2">>, <<"supervisor">>}}

ParseInit ==
    /\ config \in ParsePlans
    /\ pc = supervisor_role
    /\ step = 0
    /\ messages = <<HumanMessage(research_question)>>
    /\ current_agent = "START"
    /\ supervisor_decision = None
    /\ findings = <<>>
    /\ stats = <<>>
    /\ iteration_count = 0
    /\ max_iterations = complexity_map(config.complexity)
    /\ next_tasks = <<>>
    /\ active_branches = 0
    /\ completed_branches = 0
    /\ sent_messages = <<>>
    /\ input \in SeqsUpTo(ParseTokens, MaxReplyLen)
    /\ output = <<>>
    /\ client = NewClient
    /\ callers = NoCallers

ParseReply ==
    /\ output = <<>>
    /\ LET delta == supervisor_executor(config, State, input)
       IN output' = <<[delta |-> delta,
                       target |-> router([State EXCEPT !.supervisor_decision =
                                                     delta.supervisor_decision])]>>
    /\ UNCHANGED <<config, pc, step, messages, current_agent, supervisor_decision,
                   findings, stats, iteration_count, max_iterations, next_tasks,
                   active_branches, completed_branches, sent_messages, input>>
    /\ UNCHANGED <<client, callers>>

ParseNext == ParseReply

ParseSpec == ParseInit /\ [][ParseNext]_vars

\* segments of a decision line
ReplySegments ==
    {<<"r1">>,
     <<"r2">>,
     <<"zz">>,
     <<"[r1]">>,
     <<"r1", ":", Q, "A", Q>>,
     <<"r2", ":", Q, "A", ",", "B", Q>>,
     <<"zz", ":", Q, "A", Q>>}

ReplyPrefixes == {<<>>, <<"NEXT:">>, <<"PARALLEL:">>, <<"NEXT:", "parallel:">>}

\* ", ".join(segments)
RECURSIVE JoinSegments(_)
JoinSegments(segments) ==
    IF segments = <<>> THEN <<>>
    ELSE IF Len(segments) = 1 THEN segments[1]
    ELSE segments[1] \o <<",">> \o JoinSegments(Tail(segments))

\* mock_parse_decision applied to one reply, as the tests call it
GrammarInit ==
    /\ config \in ParsePlans
    /\ pc = supervisor_role
    /\ step = 0
    /\ messages = <<HumanMessage(research_question)>>
    /\ current_agent = "START"
    /\ supervisor_decision = None
    /\ findings = <<>>
    /\ stats = <<>>
    /\ iteration_count = 0
    /\ max_iterations = complexity_map(config.complexity)
    /\ next_tasks = <<>>
    /\ active_branches = 0
    /\ completed_branches = 0
    /\ sent_messages = <<>>
    /\ \E prefix \in ReplyPrefixes :
       \E segments \in SeqsUpTo(ReplySegments, MaxSegments) :
           input = prefix \o JoinSegments(segments)
    /\ output = <<>>
    /\ client = NewClient
    /\ callers = NoCallers

GrammarParse ==
    /\ output = <<>>
    /\ output' = <<mock_parse_decision(input, Range(subordinate_roles(config)))>>
    /\ UNCHANGED <<config, pc, step, messages, current_agent, supervisor_decision,
                   findings, stats, iteration_count, max_iterations, next_tasks,
                   active_branches, completed_branches, sent_messages, input>>
    /\ UNCHANGED <<client, callers>>

GrammarSpec == GrammarInit /\ [][GrammarParse]_vars

\* lines of a supervisor's reply
ReplyLines ==
    {<<"NEXT:", "r1">>,
     <<"next:", "r2">>,
     <<"PARALLEL:", "r2">>,
     <<"PARALLEL:", "r1", ",", "r2">>,
     <<"parallel:", "r2", ":", Q, "A", Q>>,
     <<"r2">>,
     <<"thinking">>}

\* "\n".join(lines)
RECURSIVE JoinLines(_)
JoinLines(lines) ==
    IF lines = <<>> THEN <<>>
    ELSE IF Len(lines) = 1 THEN lines[1]
    ELSE lines[1] \o <<"NL">> \o JoinLines(Tail(lines))

\* supervisor_executor and the router applied to one reply of several lines
LinesInit ==
    /\ config \in ParsePlans
    /\ pc = supervisor_role
    /\ step = 0
    /\ messages = <<HumanMessage(research_question)>>
    /\ current_agent = "START"
    /\ supervisor_decision = None
    /\ findings = <<>>
    /\ stats = <<>>
    /\ iteration_count = 0
    /\ max_iterations = complexity_map(config.complexity)
    /\ next_tasks = <<>>
    /\ active_branches = 0
    /\ completed_branches = 0
    /\ sent_messages = <<>>
    /\ \E lines \in SeqsUpTo(ReplyLines, MaxLines) : input = JoinLines(lines)
    /\ output = <<>>
    /\ client = NewClient
    /\ callers = NoCallers

LinesSpec == LinesInit /\ [][ParseReply]_vars

-----------------------------------------------------------------------------
(* create_agent_executor and create_supervisor_executor applied in isolation *)
(* to a state with a given shared log, as tests/test_context_hygiene_logic   *)
(* calls the executor: the message list handed to the model is captured      *)

\* an assistant turn that requests tool calls
AIToolMessage(content, name, calls) ==
    [AIMessage(content, name) EXCEPT !.tool_calls = calls]

\* a final answer longer than the truncation length of _format_findings;
\* every token of it is one character
LongText(c) == [i \in 1..(TruncateAt + 1) |-> c]

LongAnswer(role) == LongText(IF role = "r1" THEN "a" ELSE "b")

\* the events one turn of a role appends to the shared log
RoleTurns(role) ==
    {<<AIMessage(<<"ans", role>>, role)>>,
     <<AIToolMessage(<<"searching">>, role, <<ToolCall("t1", role, FALSE)>>),
       tool_result(ToolCall("t1", role, FALSE)),
       AIMessage(<<"found", role>>, role)>>,
     <<AIMessage(LongAnswer(role), role)>>}

\* what one step appends to the shared log: a turn of a role, a reply of the
\* supervisor, or a message of the caller's input state
LogBlocks ==
    RoleTurns("r1") \cup RoleTurns("r2")
    \cup {<<AIMessage(<<"NEXT:", "r1">>, None)>>,
          <<HumanMessage(<<"refine">>)>>,
          <<SystemMessage(<<"Ignore me">>)>>}

RECURSIVE Flatten(_)
Flatten(blocks) ==
    IF blocks = <<>> THEN <<>> ELSE blocks[1] \o Flatten(Tail(blocks))

\* the role whose turn a block is, None for the other blocks
TurnRole(block) == IF block[1].type = "ai" THEN block[1].name ELSE None

\* the findings ledger after the turns of the blocks were merged
RECURSIVE LedgerOf(_)
LedgerOf(blocks) ==
    IF blocks = <<>> THEN <<>>
    ELSE LET block == blocks[Len(blocks)]
             before == LedgerOf(SubSeq(blocks, 1, Len(blocks) - 1))
         IN IF TurnRole(block) = None THEN before
            ELSE merge_findings(before,
                                <<<<TurnRole(block), block[Len(block)].content>>>>)

TurnCount(blocks) ==
    Cardinality({i \in 1..Len(blocks) : TurnRole(blocks[i]) # None})

ContextPlans ==
    {[agents |-> <<"supervisor", "r1", "r2">>, complexity |-> "simple",
      tools |-> [r \in {"r1", "r2"} |-> <<"t1">>],
      context_dependencies |-> deps] :
        deps \in {[r \in {"r1", "r2"} |-> IF r = "r2" THEN {"r1"} ELSE {}],
                  [r \in {"r1", "r2"} |-> {"r2"}]}}

ContextInit ==
    /\ config \in ContextPlans
    /\ pc = "assemble"
    /\ step = 0
    /\ \E blocks \in SeqsUpTo(LogBlocks, MaxTurns) :
       \E question \in {<<>>, <<HumanMessage(research_question)>>} :
           /\ messages = question \o Flatten(blocks)
           /\ findings = LedgerOf(blocks)
           /\ iteration_count = TurnCount(blocks)
    /\ current_agent = "START"
    /\ supervisor_decision = None
    /\ stats = <<>>
    /\ max_iterations = complexity_map(config.complexity)
    /\ next_tasks = <<>>
    /\ active_branches = 0
    /\ completed_branches = 0
    /\ sent_messages = <<>>
    /\ input = NoInput
    /\ output = <<>>
    /\ client = NewClient
    /\ callers = NoCallers

\* the executor of a subordinate builds the input of its first model call
AssembleAgent(agent_name) ==
    /\ pc = "assemble"
    /\ pc' = "assembled"
    /\ input' = <<agent_name>>
    /\ output' = agent_input(config, State, agent_name)
    /\ UNCHANGED <<config, step, messages, current_agent, supervisor_decision,
                   findings, stats, iteration_count, max_iterations, next_tasks,
                   active_branches, completed_branches, sent_messages>>
    /\ UNCHANGED <<client, callers>>

AssembleSubordinate ==
    \E agent_name \in Range(subordinate_roles(config)) : AssembleAgent(agent_name)

\* the executor of the supervisor builds the input of its model call
AssembleSupervisor ==
    /\ pc = "assemble"
    /\ pc' = "assembled"
    /\ input' = <<supervisor_role>>
    /\ output' = supervisor_input(config, State)
    /\ UNCHANGED <<config, step, messages, current_agent, supervisor_decision,
                   findings, stats, iteration_count, max_iterations, next_tasks,
                   active_branches, completed_branches, sent_messages>>
    /\ UNCHANGED <<client, callers>>

ContextNext == AssembleSubordinate \/ AssembleSupervisor

ContextSpec == ContextInit /\ [][ContextNext]_vars

-----------------------------------------------------------------------------
(* One turn of agent_executor applied to the initial state of a run, the     *)
(* model's responses of the turn being given                                 *)

\* a tool call succeeds, names a tool missing from the registry, or raises
CallKinds == {"ok", "unknown", "raises"}

MakeCall(kind, round, pos) ==
    ToolCall(IF kind = "unknown" THEN "tx" ELSE "t1",
             "c" \o ToString(round) \o "." \o ToString(pos),
             kind = "raises")

\* the tool_calls of the response of a round
CallList(kinds, round) == [pos \in 1..Len(kinds) |-> MakeCall(kinds[pos], round, pos)]

KindLists == UNION {[1..k -> CallKinds] : k \in 1..MaxCalls}

\* the answers a model gives: plain, or with its reasoning inline between the
\* tags tests/unit/test_pruning_logic.py uses
Answers ==
    {<<"answer">>,
     <<"<think>", "plan", "</think>", "answer">>}

\* the responses the model gives in a turn when asked: the first n request
\* tool calls, the k-th of them the calls of the given kinds and the others
\* one call that succeeds, and the next one is the answer without tool calls
LoopScript(n, k, kinds, answer) ==
    [i \in 1..(n + 1) |->
        IF i <= n
        THEN Response(<<"step", ToString(i)>>,
                      CallList(IF i = k THEN kinds ELSE <<"ok">>, i))
        ELSE Response(answer, <<>>)]

LoopScripts ==
    {<<Response(answer, <<>>)>> : answer \in Answers}
    \cup UNION {UNION {{LoopScript(n, k, kinds, answer) :
                           kinds \in KindLists, answer \in Answers} : k \in 1..n} :
                    n \in 1..MaxRounds}

LoopInit ==
    /\ config = [agents |-> <<"r1">>, complexity |-> "simple",
                 tools |-> [r \in {"r1"} |-> <<"t1">>],
                 context_dependencies |-> [r \in {"r1"} |-> {}]]
    /\ pc = config.agents[1]
    /\ step = 0
    /\ messages = <<HumanMessage(research_question)>>
    /\ current_agent = "START"
    /\ supervisor_decision = None
    /\ findings = <<>>
    /\ stats = <<>>
    /\ iteration_count = 0
    /\ max_iterations = complexity_map(config.complexity)
    /\ next_tasks = <<>>
    /\ active_branches = 0
    /\ completed_branches = 0
    /\ sent_messages = <<>>
    /\ input \in LoopScripts
    /\ output = <<>>
    /\ client = NewClient
    /\ callers = NoCallers

\* the turn of the sole agent on the responses drawn
LoopTurn == AgentTurn(config.agents[1], input)

LoopNext == LoopTurn

LoopSpec == LoopInit /\ [][LoopNext]_vars

-----------------------------------------------------------------------------
(* Threads calling MCPClient.send_request on one client, the server process  *)
(* and the reader thread _read_responses                                     *)

McpInit ==
    /\ config \in {c \in Plans : c.agents = <<"r1">>}
    /\ pc = "tools"
    /\ step = 0
    /\ messages = <<>>
    /\ current_agent = "START"
    /\ supervisor_decision = None
    /\ findings = <<>>
    /\ stats = <<>>
    /\ iteration_count = 0
    /\ max_iterations = complexity_map(config.complexity)
    /\ next_tasks = <<>>
    /\ active_branches = 0
    /\ completed_branches = 0
    /\ sent_messages = <<>>
    /\ input = NoInput
    /\ output = <<>>
    /\ client = NewClient
    /\ callers = NoCallers

RunUnchanged ==
    UNCHANGED <<config, pc, step, messages, current_agent, supervisor_decision,
                findings, stats, iteration_count, max_iterations, next_tasks,
                active_branches, completed_branches, sent_messages, input, output>>

\* the call a thread is making: its name and the number of the call
CurrentParams(t) == <<t, ToString(Len(callers[t].log) + 1)>>

\* leaving the with block of send_request, called by call_tool: the lock is
\* released and the call logged with what send_request did (outcome, result)
\* and what call_tool made of it (returned)
Leave(t, outcome, result) ==
    callers' = [callers EXCEPT ![t] =
                   [pc |-> "idle", id |-> 0,
                    log |-> Append(@.log, [id |-> callers[t].id,
                                           params |-> CurrentParams(t),
                                           outcome |-> outcome,
                                           result |-> result,
                                           returned |-> call_tool("t1", outcome, result)])]]

\* with self._lock:
Acquire(t) ==
    /\ pc = "tools"
    /\ callers[t].pc = "idle"
    /\ client.phase \in {"Connected", "Closed"}
    /\ client.request_id < MaxRequests
    /\ can_acquire(client.lock)
    /\ client' = [client EXCEPT !.lock = t]
    /\ callers' = [callers EXCEPT ![t].pc = "locked"]
    /\ RunUnchanged

\* self.request_id += 1
AssignId(t) ==
    /\ callers[t].pc = "locked"
    /\ client' = [client EXCEPT !.request_id = @ + 1]
    /\ callers' = [callers EXCEPT ![t].pc = "assigned"]
    /\ RunUnchanged

\* the request is built with "id": self.request_id and written to stdin; the
\* write raises ValueError when stdin was closed, and BrokenPipeError, with
\* the line left in the buffer of stdin, when the server process has exited
WriteRequest(t) ==
    /\ callers[t].pc = "assigned"
    /\ IF client.process = "running" /\ client.stdin_open
       THEN /\ client' = [client EXCEPT
                             !.stdin = Append(@, request(client.request_id,
                                                         CurrentParams(t)))]
            /\ callers' = [callers EXCEPT ![t].pc = "waiting",
                                          ![t].id = client.request_id]
       ELSE LET outcome == IF client.stdin_open THEN "broken_pipe" ELSE "closed_file"
            IN /\ client' = [client EXCEPT !.lock = None,
                                           !.unflushed = @ \/ client.stdin_open]
               /\ callers' = [callers EXCEPT ![t] =
                      [pc |-> "idle", id |-> 0,
                       log |-> Append(@.log,
                           [id |-> client.request_id,
                            params |-> CurrentParams(t),
                            outcome |-> outcome,
                            result |-> None,
                            returned |-> call_tool("t1", outcome, None)])]]
    /\ RunUnchanged

\* a wait loop that returns whatever response it finds
poll_any(t) ==
    /\ callers[t].pc = "waiting"
    /\ client.response_queue # <<>>
    /\ client' = [client EXCEPT !.response_queue = Tail(@), !.lock = None]
    /\ IF Head(client.response_queue).error
       THEN Leave(t, "error", None)
       ELSE Leave(t, "result", Head(client.response_queue).result)
    /\ RunUnchanged

\* one pass of the wait loop that finds a response in the queue
Poll(t) ==
    /\ callers[t].pc = "waiting"
    /\ client.response_queue # <<>>
    /\ LET response == Head(client.response_queue) IN
       IF response.id = client.request_id
       THEN /\ client' = [client EXCEPT !.response_queue = Tail(@), !.lock = None]
            /\ IF response.error
               THEN Leave(t, "error", None)
               ELSE Leave(t, "result", response.result)
       ELSE /\ client' = [client EXCEPT !.response_queue = Tail(@)]
            /\ UNCHANGED callers
    /\ RunUnchanged

\* Timeout that leaves the lock held
timeout_keeps_lock(t) ==
    /\ callers[t].pc = "waiting"
    /\ UNCHANGED client
    /\ Leave(t, "timeout", None)
    /\ RunUnchanged

\* Timeout raising the same failure as an error response
TimeoutAsError(t) ==
    /\ callers[t].pc = "waiting"
    /\ client' = [client EXCEPT !.lock = None]
    /\ Leave(t, "error", None)
    /\ RunUnchanged

\* the wait loop ends without a response: TimeoutError
Timeout(t) ==
    /\ callers[t].pc = "waiting"
    /\ client' = [client EXCEPT !.lock = None]
    /\ Leave(t, "timeout", None)
    /\ RunUnchanged

\* the server answers one of the requests it has read, in any order
ServerRespond ==
    /\ client.process = "running"
    /\ \E i \in 1..Len(client.stdin) : \E error \in BOOLEAN :
           client' = [client EXCEPT
                         !.stdin = Remove(@, i),
                         !.stdout = Append(@, response_to(client.stdin[i], error))]
    /\ UNCHANGED callers
    /\ RunUnchanged

\* a line of stdout that is not JSON
malformed_line == [jsonrpc |-> "", id |-> 0, result |-> <<>>, error |-> FALSE]

\* json.loads of a line inside the try: the response, or nothing after
\* JSONDecodeError
parsed(line) == IF line = malformed_line THEN <<>> ELSE <<line>>

\* one pass of the loop of _read_responses on the first line of stdout: the
\* response is queued, or the warning is logged (here with the number of the
\* line)
read_line(c) ==
    [c EXCEPT !.stdout = Tail(@),
              !.lines_read = @ + 1,
              !.response_queue = @ \o parsed(Head(c.stdout)),
              !.warnings = IF parsed(Head(c.stdout)) = <<>>
                           THEN Append(@, c.lines_read + 1) ELSE @]

\* a reader that a line that is not JSON stops: the lines after it stay unread
read_response_stops ==
    /\ client.process = "running"
    /\ client.stdout # <<>>
    /\ client' = IF parsed(Head(client.stdout)) = <<>>
                 THEN [read_line(client) EXCEPT !.stdout = <<>>]
                 ELSE read_line(client)
    /\ UNCHANGED callers
    /\ RunUnchanged

\* _read_responses: one line of stdout is read, parsed and queued
ReadResponse ==
    /\ client.process = "running"
    /\ client.stdout # <<>>
    /\ client' = read_line(client)
    /\ UNCHANGED callers
    /\ RunUnchanged

\* the server writes a line that is not JSON to its stdout
ServerLog ==
    /\ pc = "tools"
    /\ client.process = "running"
    /\ Len(client.warnings)
         + Cardinality({i \in 1..Len(client.stdout) :
                           client.stdout[i] = malformed_line}) < MaxMalformed
    /\ client' = [client EXCEPT !.stdout = Append(@, malformed_line)]
    /\ UNCHANGED callers
    /\ RunUnchanged

\* the server process exits; the reader thread, whose loop runs while the
\* process is alive, stops, after the line it was reading if there was one
ServerExit ==
    /\ pc = "tools"
    /\ client.process = "running"
    /\ \E last \in BOOLEAN :
           client' = IF last /\ client.stdout # <<>>
                     THEN [read_line(client) EXCEPT !.process = "exited"]
                     ELSE [client EXCEPT !.process = "exited"]
    /\ UNCHANGED callers
    /\ RunUnchanged

SendRequest ==
    \E t \in Threads :
        Acquire(t) \/ AssignId(t) \/ WriteRequest(t) \/ Poll(t) \/ Timeout(t)

McpNext == SendRequest \/ ServerRespond \/ ReadResponse \/ ServerExit

McpSpec == McpInit /\ [][McpNext]_vars

ReaderNext == SendRequest \/ ServerRespond \/ ReadResponse \/ ServerLog

\* the client with a server that also writes lines that are not JSON
ReaderSpec == McpInit /\ [][ReaderNext]_vars

\* __init__ calls _start_process: Popen is invoked
BeginStart ==
    /\ client.phase = "Disconnected"
    /\ client' = [client EXCEPT !.phase = "Starting"]
    /\ UNCHANGED callers
    /\ RunUnchanged

\* Popen returns and the reader thread is started, or Popen raises: then
\* __init__ raises, no caller ever holds the client, and the close() of
\* __del__ finds no process
FinishStart ==
    /\ client.phase = "Starting"
    /\ \E started \in BOOLEAN :
           client' = IF started
                     THEN [client EXCEPT !.phase = "Connected", !.process = "running"]
                     ELSE [client EXCEPT !.phase = "Closed"]
    /\ UNCHANGED callers
    /\ RunUnchanged

\* close(): stdin.close(), terminate(), wait(timeout=5), and kill() in the
\* except clause around the three.  stdin.close() flushes and raises when a
\* line is left in the buffer; wait raises when the process does not exit
\* within the 5 seconds.
Close ==
    /\ client.phase = "Connected"
    /\ \E in_time \in BOOLEAN :
           LET steps ==
                   IF client.unflushed
                   THEN <<"close_stdin_raised", "kill">>
                   ELSE IF in_time \/ client.process = "exited"
                   THEN <<"close_stdin", "terminate", "wait">>
                   ELSE <<"close_stdin", "terminate", "wait_expired", "kill">>
           IN client' = [client EXCEPT !.phase = "Closed", !.process = "exited",
                                       !.stdin_open = FALSE, !.shutdown = steps]
    /\ UNCHANGED callers
    /\ RunUnchanged

LifeInit ==
    /\ config \in {c \in Plans : c.agents = <<"r1">>}
    /\ pc = "tools"
    /\ step = 0
    /\ messages = <<>>
    /\ current_agent = "START"
    /\ supervisor_decision = None
    /\ findings = <<>>
    /\ stats = <<>>
    /\ iteration_count = 0
    /\ max_iterations = complexity_map(config.complexity)
    /\ next_tasks = <<>>
    /\ active_branches = 0
    /\ completed_branches = 0
    /\ sent_messages = <<>>
    /\ input = NoInput
    /\ output = <<>>
    /\ client = UnstartedClient
    /\ callers = NoCallers

LifeNext ==
    \/ BeginStart \/ FinishStart \/ Close
    \/ SendRequest \/ ServerRespond \/ ReadResponse \/ ServerExit

\* a client from its construction to its shutdown
LifeSpec == LifeInit /\ [][LifeNext]_vars

\* time passes: the 10 seconds of a wait loop run out, so a thread that stays
\* in the loop leaves it with the timeout
McpFairSpec == McpInit /\ [][McpNext]_vars /\ \A t \in Threads : WF_vars(Timeout(t))

-----------------------------------------------------------------------------
(* The deltas of the branches of one fan-out merged into the shared state    *)
(* through the reducers of ResearchState, in the order the branches complete *)

\* one delta applied to the state, each channel through its declared reducer
apply_delta(st, delta) ==
    [st EXCEPT
        !.messages = st.messages \o delta.messages,
        !.current_agent = reduce_current_agent(st.current_agent, delta.current_agent),
        !.findings = merge_findings(st.findings, delta.findings),
        !.stats = merge_stats(st.stats, delta.stats),
        !.iteration_count = reduce_max_iterations(st.iteration_count,
                                                  delta.iteration_count),
        !.completed_branches = increment_counter(st.completed_branches,
                                                 delta.completed_branches)]

RECURSIVE apply_deltas(_, _)
apply_deltas(st, deltas) ==
    IF deltas = <<>> THEN st
    ELSE apply_deltas(apply_delta(st, deltas[1]), Tail(deltas))

\* the delta a branch returns: that of agent_executor on the snapshot taken at
\* dispatch, and 1 on the completed_branches channel
branch_delta_two_units(cfg, snapshot, agent_name, script) ==
    LET delta == agent_executor(cfg, snapshot, agent_name, script)
    IN [messages |-> delta.messages,
        findings |-> delta.findings,
        current_agent |-> delta.current_agent,
        stats |-> delta.stats,
        iteration_count |-> delta.iteration_count + 1,
        completed_branches |-> 1]

branch_delta(cfg, snapshot, agent_name, script) ==
    LET delta == agent_executor(cfg, snapshot, agent_name, script)
    IN [messages |-> delta.messages,
        findings |-> delta.findings,
        current_agent |-> delta.current_agent,
        stats |-> delta.stats,
        iteration_count |-> delta.iteration_count,
        completed_branches |-> 1]

\* the final answers of the branches
BranchScripts == {<<Response(<<"A">>, <<>>)>>, <<Response(<<"B">>, <<>>)>>}

\* the states a fan-out is dispatched from
Snapshots ==
    {[research_question |-> research_question,
      messages |-> <<HumanMessage(research_question)>>,
      current_agent |-> supervisor_role,
      supervisor_decision |-> "PARALLEL",
      findings |-> f,
      stats |-> <<>>,
      iteration_count |-> n,
      max_iterations |-> complexity_map("simple"),
      next_tasks |-> <<>>,
      active_branches |-> MaxBranches,
      completed_branches |-> 0] :
        f \in {<<>>, <<<<"r2", <<"old">>>>>>}, n \in 0..1}

\* output holds the snapshot and the branch deltas in dispatch order, input the
\* deltas of the branches that have not completed yet
MergeInit ==
    /\ config \in {c \in Plans : c.agents = <<"supervisor", "r1", "r2">>}
    /\ pc = "fan-out"
    /\ step = 0
    /\ \E snapshot \in Snapshots :
       \E roles \in [1..MaxBranches -> {"r1", "r2"}] :
       \E scripts \in [1..MaxBranches -> BranchScripts] :
           LET deltas == [i \in 1..MaxBranches |->
                             branch_delta(config, snapshot, roles[i], scripts[i])]
           IN /\ messages = snapshot.messages
              /\ findings = snapshot.findings
              /\ iteration_count = snapshot.iteration_count
              /\ input = deltas
              /\ output = <<snapshot, deltas>>
    /\ current_agent = supervisor_role
    /\ supervisor_decision = "PARALLEL"
    /\ stats = <<>>
    /\ max_iterations = complexity_map("simple")
    /\ next_tasks = <<>>
    /\ active_branches = MaxBranches
    /\ completed_branches = 0
    /\ sent_messages = <<>>
    /\ client = NewClient
    /\ callers = NoCallers

\* a branch completes and its delta is merged
MergeBranch(i) ==
    /\ pc = "fan-out"
    /\ i \in 1..Len(input)
    /\ LET merged == apply_delta(State, input[i])
       IN /\ messages' = merged.messages
          /\ current_agent' = merged.current_agent
          /\ findings' = merged.findings
          /\ stats' = merged.stats
          /\ iteration_count' = merged.iteration_count
          /\ completed_branches' = merged.completed_branches
    /\ input' = Remove(input, i)
    /\ step' = step + 1
    /\ UNCHANGED <<config, pc, supervisor_decision, max_iterations, next_tasks,
                   active_branches, sent_messages, output>>
    /\ UNCHANGED <<client, callers>>

MergeNext == \E i \in 1..MaxBranches : MergeBranch(i)

MergeSpec == MergeInit /\ [][MergeNext]_vars

-----------------------------------------------------------------------------
(* _prune_reasoning, which tests/unit/test_pruning_logic.py imports from     *)
(* graph_builder.py and the module does not define: the pruning of inline   *)
(* reasoning as documented, applied to one text                              *)

\* the closing tag of an opening reasoning tag
close_tag(open) ==
    CASE open = "<think>" -> "</think>"
      [] open = "<thinking>" -> "</thinking>"
      [] open = "[thought]" -> "[/thought]"

\* pruning that removes closed blocks only
RECURSIVE prune_closed_only(_)
prune_closed_only(text) ==
    LET opens == {i \in 1..Len(text) :
                     /\ text[i] \in {"<think>", "<thinking>", "[thought]"}
                     /\ \E j \in (i + 1)..Len(text) : text[j] = close_tag(text[i])}
    IN IF opens = {} THEN text
       ELSE LET i == CHOOSE m \in opens : \A n \in opens : m <= n
                closes == {j \in (i + 1)..Len(text) : text[j] = close_tag(text[i])}
                j == CHOOSE m \in closes : \A n \in closes : m <= n
            IN SubSeq(text, 1, i - 1) \o prune_closed_only(SubSeq(text, j + 1, Len(text)))

\* each closed block, from its opening tag to the first closing tag of the
\* same spelling, is removed; the text is cut at an opening tag left unclosed
RECURSIVE prune_reasoning(_)
prune_reasoning(text) ==
    LET opens == {i \in 1..Len(text) : text[i] \in {"<think>", "<thinking>", "[thought]"}}
    IN IF opens = {} THEN text
       ELSE LET i == CHOOSE m \in opens : \A n \in opens : m <= n
                closes == {j \in (i + 1)..Len(text) : text[j] = close_tag(text[i])}
            IN IF closes = {} THEN SubSeq(text, 1, i - 1)
               ELSE SubSeq(text, 1, i - 1)
                    \o prune_reasoning(SubSeq(text,
                                              (CHOOSE m \in closes : \A n \in closes : m <= n) + 1,
                                              Len(text)))

PruneTokens ==
    {"<think>", "</think>", "<thinking>", "</thinking>", "[thought]", "[/thought]",
     "a", "b"}

PruneInit ==
    /\ config \in {c \in Plans : c.agents = <<"r1">>}
    /\ pc = "prune"
    /\ step = 0
    /\ messages = <<HumanMessage(research_question)>>
    /\ current_agent = "START"
    /\ supervisor_decision = None
    /\ findings = <<>>
    /\ stats = <<>>
    /\ iteration_count = 0
    /\ max_iterations = complexity_map(config.complexity)
    /\ next_tasks = <<>>
    /\ active_branches = 0
    /\ completed_branches = 0
    /\ sent_messages = <<>>
    /\ input \in SeqsUpTo(PruneTokens, MaxTextLen)
    /\ output = <<>>
    /\ client = NewClient
    /\ callers = NoCallers

\* the text is pruned; output holds the result
Prune ==
    /\ pc = "prune"
    /\ pc' = "pruned"
    /\ output' = prune_reasoning(input)
    /\ UNCHANGED <<config, step, messages, current_agent, supervisor_decision,
                   findings, stats, iteration_count, max_iterations, next_tasks,
                   active_branches, completed_branches, sent_messages, input>>
    /\ UNCHANGED <<client, callers>>

PruneSpec == PruneInit /\ [][Prune]_vars

-----------------------------------------------------------------------------
(* increment_counter applied to one pair of values, as                       *)
(* tests/unit/test_parallel_logic.py test_counter_reset calls it            *)

\* x is a value a counter channel can hold: an integer or None
CounterValue(x) == x \in -MaxCount..MaxCount \/ x = None

\* input holds the update, completed_branches the value of the channel
CounterInit ==
    /\ config \in {c \in Plans : c.agents = <<"supervisor", "r1", "r2">>}
    /\ pc = "reduce"
    /\ step = 0
    /\ messages = <<HumanMessage(research_question)>>
    /\ current_agent = "START"
    /\ supervisor_decision = None
    /\ findings = <<>>
    /\ stats = <<>>
    /\ iteration_count = 0
    /\ max_iterations = complexity_map(config.complexity)
    /\ next_tasks = <<>>
    /\ active_branches = 0
    /\ CounterValue(completed_branches)
    /\ sent_messages = <<>>
    /\ \E right \in -MaxCount..MaxCount : input = <<right>> \/ input = <<None>>
    /\ output = <<>>
    /\ client = NewClient
    /\ callers = NoCallers

\* the channel is updated through its reducer; input keeps both arguments
ReduceCounter ==
    /\ pc = "reduce"
    /\ pc' = "reduced"
    /\ completed_branches' = increment_counter(completed_branches, input[1])
    /\ input' = <<completed_branches, input[1]>>
    /\ UNCHANGED <<config, step, messages, current_agent, supervisor_decision,
                   findings, stats, iteration_count, max_iterations, next_tasks,
                   active_branches, sent_messages, output>>
    /\ UNCHANGED <<client, callers>>

CounterSpec == CounterInit /\ [][ReduceCounter]_vars

-----------------------------------------------------------------------------
(* Observations on a state of the run: the vocabulary of the properties   *)
(* below                                                                   *)

Subordinates == Range(subordinate_roles(config))

\* a superstep of the supervisor node is taken
SupervisorStep == pc = supervisor_role /\ step' = step + 1

\* a superstep of a subordinate node of the star topology is taken
SubordinateStep == has_supervisor(config) /\ pc \in Subordinates /\ step' = step + 1

\* the assembled input carries no directive
NoDirective(assembled) == Missing(Directive(assembled))

\* the assembled input carries a directive, and it is the given text
DirectiveIs(assembled, text) ==
    IF Missing(Directive(assembled)) THEN FALSE
    ELSE Directive(assembled) = text

\* positions of the supervisor's replies in the shared log
SupervisorReplyAt(msgs) ==
    {i \in 1..Len(msgs) : msgs[i].type = "ai" /\ msgs[i].name = None}

LastOf(S) == CHOOSE m \in S : \A n \in S : n <= m

\* positions of the replies of a role in the shared log
RepliesOf(role, msgs) ==
    {i \in 1..Len(msgs) : msgs[i].type = "ai" /\ msgs[i].name = role}

\* a step in which the node of a subordinate role ran and returned
RoleRan(role) ==
    /\ role # supervisor_role
    /\ pc = role
    /\ step' = step + 1

\* number of turns the subordinate roles have completed
SubordinateTurns ==
    Cardinality({i \in 1..Len(stats) : stats[i].agent # supervisor_role})

\* number of turns a role has completed
TurnsOf(role) == Cardinality({i \in 1..Len(stats) : stats[i].agent = role})

\* task list the decision grammar assigns to the supervisor's latest reply
LatestTasks(msgs) ==
    IF SupervisorReplyAt(msgs) = {} THEN <<>>
    ELSE mock_parse_decision(msgs[LastOf(SupervisorReplyAt(msgs))].content,
                             Subordinates).next_tasks

\* roles with a turn merged after the supervisor's latest reply
CompletedSince(msgs) ==
    {msgs[j].name : j \in {k \in 1..Len(msgs) :
                              /\ SupervisorReplyAt(msgs) # {}
                              /\ k > LastOf(SupervisorReplyAt(msgs))
                              /\ msgs[k].type = "ai"}}

\* the branches a supervisor superstep dispatches
Dispatched(target) == IF target \in Subordinates THEN <<target>> ELSE <<>>

TaskAgents(tasks) == [i \in 1..Len(tasks) |-> tasks[i].agent]

ParallelBoth == <<"PARALLEL:", "r1", ":", Q, "A", Q, ",", "r2", ":", Q, "B", Q>>

\* ids of the tool calls a role requested in its turns of the log
OwnCallIds(msgs, role) ==
    UNION {{msgs[i].tool_calls[j].id : j \in 1..Len(msgs[i].tool_calls)} :
              i \in {k \in 1..Len(msgs) : msgs[k].type = "ai" /\ msgs[k].name = role}}

\* a role's assistant turns and the tool results answering their calls
OwnTurns(msgs, role) ==
    SelectSeq(msgs, LAMBDA m : \/ (m.type = "ai" /\ m.name = role)
                               \/ (m.type = "tool"
                                     /\ m.tool_call_id \in OwnCallIds(msgs, role)))

\* an input was assembled for a subordinate / for the supervisor
AssembledForSubordinate == pc = "assembled" /\ input[1] \in Subordinates

AssembledForSupervisor == pc = "assembled" /\ input[1] = supervisor_role

\* sub occurs in text as a contiguous run
Contains(text, sub) ==
    \E i \in 1..(Len(text) - Len(sub) + 1) : SubSeq(text, i, i + Len(sub) - 1) = sub

\* the entries of an assembled input that are not entries of the shared log
Synthesized(assembled) == SelectSeq(assembled, LAMBDA m : m \notin Range(messages))

\* some entry of the list shows the text
Shows(msgs, text) == \E i \in 1..Len(msgs) : Contains(msgs[i].content, text)

\* the entry _format_findings writes for a role
LedgerEntry(role, text) == <<"[", role, "]:", "NL">> \o Truncate(text) \o <<"NL">>

\* the part of a finding that survives the truncation
Kept(text) == SubSeq(text, 1, IF Len(text) > TruncateAt THEN TruncateAt ELSE Len(text))

\* the progress line of the supervisor's task message
ProgressLine ==
    <<"Iteration", ToString(iteration_count), "of", ToString(max_iterations)>>

\* no entry of the list is an entry of the shared log or repeats the content
\* of a tool result, a directive or a supervisor reply of the log
NoLogTurn(msgs) ==
    /\ \A i \in 1..Len(msgs) : msgs[i] \notin Range(messages)
    /\ \A j \in 2..Len(messages) :
           (messages[j].type \in {"tool", "human", "system"} \/ messages[j].name = None)
               => ~Shows(msgs, messages[j].content)

\* the turn of LoopSpec is over
TurnDone == pc = END /\ step = 1 /\ input # NoInput

\* what the turn appended to the shared log
TurnEvents == SubSeq(messages, 2, Len(messages))

\* number of completion calls of the turn: one response is appended per call
CompletionCalls ==
    Cardinality({i \in 1..Len(TurnEvents) : TurnEvents[i].type = "ai"})

\* the first 5 responses of the script all request tool calls
CeilingReached(script) ==
    /\ Len(script) >= 5
    /\ \A i \in 1..5 : script[i].tool_calls # <<>>

\* positions of the responses of a script that carry no tool calls
NoToolCalls(script) == {i \in 1..Len(script) : script[i].tool_calls = <<>>}

\* call_tool raises for the call: the tool is missing or the tool raises
Failing(call) == call.name \notin RegisteredTools \/ call.raises

IsErrorText(content) == content # <<>> /\ content[1] = "Error executing tool:"

\* number of responses among the first i events of the turn
ResponsesUpTo(i) == Cardinality({n \in 1..i : TurnEvents[n].type = "ai"})

\* the tags that open inline reasoning
ReasoningTags == {"<think>", "<thinking>", "[thought]"}

HasReasoning(text) == \E i \in 1..Len(text) : text[i] \in ReasoningTags

\* a thread leaves send_request in this step
Leaves(t) == callers[t].pc = "waiting" /\ callers'[t].pc = "idle"

\* the record of the call a thread completed last
LastCall(t) == callers[t].log[Len(callers[t].log)]

\* the calls completed so far, of all threads
CompletedCalls == UNION {Range(callers[t].log) : t \in Threads}

\* ids of the requests that timed out
TimedOutIds ==
    {c.id : c \in {d \in CompletedCalls : d.outcome = "timeout"}}

\* the ways send_request fails
BridgeFailures == {"timeout", "error", "broken_pipe"}

\* the state a fan-out was dispatched from and the deltas of its branches
Snapshot == output[1]

BranchDeltas == output[2]

\* the state after the deltas are merged in dispatch order
InDispatchOrder == apply_deltas(Snapshot, BranchDeltas)

\* every branch of the fan-out has completed and is merged
AllMerged == pc = "fan-out" /\ input = <<>>

\* equality of two dicts as Python compares them: same keys, same values
SameMapping(a, b) ==
    /\ Keys(a) = Keys(b)
    /\ \A k \in Keys(a) : Get(a, k) = Get(b, k)

Count(s, x) == Cardinality({i \in 1..Len(s) : s[i] = x})

\* two lists hold the same entries the same number of times
SameEntries(s, t) ==
    /\ Len(s) = Len(t)
    /\ \A x \in Range(s) : Count(s, x) = Count(t, x)

\* the roles whose finding is written by exactly one branch of the fan-out
WrittenOnce ==
    {r \in {"r1", "r2"} :
        Cardinality({i \in 1..Len(BranchDeltas) :
                        r \in Keys(BranchDeltas[i].findings)}) = 1}

\* the commas of a line that stand outside quoted text
TopLevelCommas(line) ==
    {i \in 1..Len(line) :
        /\ line[i] = ","
        /\ Cardinality({j \in 1..(i - 1) : line[j] = Q}) % 2 = 0}

\* position of the k-th top-level comma of a line
CommaAt(line, k) ==
    CHOOSE i \in TopLevelCommas(line) :
        Cardinality({j \in TopLevelCommas(line) : j < i}) = k - 1

\* the segments between the top-level commas of a line, in order
SegmentsOf(line) ==
    LET n == Cardinality(TopLevelCommas(line))
    IN [k \in 1..(n + 1) |->
           SubSeq(line,
                  IF k = 1 THEN 1 ELSE CommaAt(line, k - 1) + 1,
                  IF k = n + 1 THEN Len(line) ELSE CommaAt(line, k) - 1)]

\* a segment of the shape  role: "instruction"
IsQuotedTask(seg) ==
    /\ Len(seg) >= 4
    /\ seg[2] = ":"
    /\ seg[3] = Q
    /\ seg[Len(seg)] = Q
    /\ seg[1] \in {"r1", "r2", "zz"}

\* a segment that is a bare role name
IsBareRole(seg) == Len(seg) = 1 /\ seg[1] \in {"r1", "r2", "zz"}

\* the task a segment stands for, if its role is known
TaskOf(seg, roles) ==
    IF seg[1] \notin roles THEN <<>>
    ELSE IF IsQuotedTask(seg)
    THEN <<[agent |-> seg[1], instruction |-> SubSeq(seg, 4, Len(seg) - 1)]>>
    ELSE <<[agent |-> seg[1], instruction |-> default_instruction]>>

RECURSIVE TasksOf(_, _)
TasksOf(segs, roles) ==
    IF segs = <<>> THEN <<>>
    ELSE TaskOf(segs[1], roles) \o TasksOf(Tail(segs), roles)

\* the decision line of the reply without its prefixes
StrippedLine == parser_line(decision_line(input))

\* positions of the opening reasoning tags of a text
OpenAt(text) == {i \in 1..Len(text) : text[i] \in ReasoningTags}

\* positions after i of the closing tags that match the opening tag at i
ClosesOf(text, i) ==
    {j \in (i + 1)..Len(text) :
        \/ text[i] = "<think>" /\ text[j] = "</think>"
        \/ text[i] = "<thinking>" /\ text[j] = "</thinking>"
        \/ text[i] = "[thought]" /\ text[j] = "[/thought]"}

-----------------------------------------------------------------------------
(* Claims *)

C2_BarrierHoldsSupervisor ==
    (pc = supervisor_role /\ Len(LatestTasks(messages)) > 1)
        => \A i \in 1..Len(LatestTasks(messages)) :
               LatestTasks(messages)[i].agent \in CompletedSince(messages)

\* C3: when the supervisor's first reply is PARALLEL naming both subordinates
\* and its second reply is FINISH, the finished run has exactly one turn of
\* each subordinate and two supervisor turns (the dispatch and the join).
C3_ParallelThenFinish ==
    (/\ pc = END
     /\ config.agents = <<"supervisor", "r1", "r2">>
     /\ SupervisorReplyAt(messages) # {}
     /\ messages[2].content = ParallelBoth
     /\ \A i \in SupervisorReplyAt(messages) : i > 2 => messages[i].content = <<"FINISH">>)
        => /\ TurnsOf("r1") = 1
           /\ TurnsOf("r2") = 1
           /\ TurnsOf(supervisor_role) = 2

\* C4: when the router runs after a supervisor turn with
\* iteration_count >= max_iterations the run terminates, whatever the decision:
\* no subordinate is dispatched.
C4_BudgetHardStop ==
    [][(SupervisorStep /\ iteration_count' >= max_iterations') => pc' = END]_vars

C4_Witness ==
    /\ pc = END
    /\ iteration_count >= max_iterations
    /\ supervisor_decision \in Subordinates

\* C5: every run terminates, also when the supervisor never says FINISH and
\* always names a valid subordinate, provided every model call returns.
C5_Terminates == <>(pc = END)

C5_Witness ==
    /\ pc = END
    /\ has_supervisor(config)
    /\ TurnsOf(supervisor_role) > max_iterations
    /\ \A i \in SupervisorReplyAt(messages) :
           /\ ~HasFinish(messages[i].content)
           /\ parse_decision(messages[i].content, subordinate_roles(config)) \in Subordinates

\* C6: when the decision parsed from the supervisor's reply is PARALLEL with N
\* tasks, the state after dispatch has active_branches = N and
\* completed_branches = 0 and exactly the N task roles are dispatched.
C6_FanOutDispatch ==
    [][(/\ SupervisorStep
        /\ iteration_count < max_iterations
        /\ LatestTasks(messages') # <<>>)
          => /\ active_branches' = Len(LatestTasks(messages'))
             /\ completed_branches' = 0
             /\ Dispatched(pc') = TaskAgents(LatestTasks(messages'))]_vars

\* C7: a branch of a fan-out sees its own task's instruction as its directive.
C7_OwnInstruction ==
    [][(SubordinateStep /\ Len(LatestTasks(messages)) > 1)
          => \A i \in 1..Len(LatestTasks(messages)) :
                 LatestTasks(messages)[i].agent = pc
                     => Directive(sent_messages') = LatestTasks(messages)[i].instruction]_vars

\* C8: each branch completion adds exactly 1 to completed_branches and sets
\* current_agent to the branch's role.
C8_BranchCompletion ==
    [][SubordinateStep =>
          /\ completed_branches' = completed_branches + 1
          /\ current_agent' = pc]_vars

\* C9: for every reply and every set of known subordinates the parsed decision
\* is absent, END, PARALLEL or a known subordinate, and the role the router
\* dispatches is a known subordinate or the run ends.
C9_DecisionInKnownSet ==
    output # <<>> =>
        /\ output[1].delta.supervisor_decision \in {None, END, "PARALLEL"} \cup Subordinates
        /\ output[1].target \in {END} \cup Subordinates

C9_Witness ==
    /\ output # <<>>
    /\ SearchNext(input) \notin {None} \cup Subordinates
    /\ output[1].delta.supervisor_decision = None
    /\ output[1].target = END

\* C10: when no routing target is parsed from the supervisor's reply (decision
\* absent) the run ends: nothing is dispatched, the supervisor is not invoked
\* again, and the run does not fail.
C10_AbsentDecisionEnds ==
    (has_supervisor(config) /\ step > 0 /\ supervisor_decision = None)
        => (pc = END /\ ~ENABLED Next)

C10_Witness ==
    /\ pc = END
    /\ step > 0
    /\ supervisor_decision = None
    /\ iteration_count < max_iterations
    /\ current_agent = supervisor_role

\* C11: a reply that contains FINISH and from which no role was extracted gives
\* the decision END; when a valid role was extracted the decision is that role,
\* FINISH or not (this parse extracts no PARALLEL decision).
C11_FinishOnlyWhenNothingExtracted ==
    output # <<>> =>
        LET candidate == SearchNext(input)
            decision == output[1].delta.supervisor_decision
        IN /\ (HasFinish(input) /\ candidate \notin Subordinates) => decision = END
           /\ candidate \in Subordinates
                 => (decision = candidate /\ output[1].target = candidate)

C11_Witness ==
    /\ output # <<>>
    /\ HasFinish(input)
    /\ SearchNext(input) \in Subordinates
    /\ output[1].delta.supervisor_decision = SearchNext(input)
    /\ output[1].target # END

\* C12: a plan with no supervisor role runs exactly one role turn, that of
\* the first role of the plan, and then is at the terminal state where no
\* further turn of any role can be taken.
C12_SingleRoleOneTurn ==
    ~has_supervisor(config) =>
        /\ step = 0 => (pc = config.agents[1] /\ stats = <<>>)
        /\ step > 0 => /\ pc = END
                       /\ ~ENABLED Next
                       /\ Len(stats) = 1
                       /\ stats[1].agent = config.agents[1]
                       /\ Keys(findings) = {config.agents[1]}

C12_Witness ==
    /\ ~has_supervisor(config)
    /\ Len(config.agents) = 2
    /\ pc = END
    /\ TurnsOf(config.agents[1]) = 1
    /\ TurnsOf(config.agents[2]) = 0

\* C13: in the star topology the first role turn of a run is the
\* supervisor's, and every subordinate turn hands control to the supervisor,
\* whose turn is the next one taken: never to another subordinate, never to
\* termination.
C13_StarReturnsToSupervisor ==
    [][has_supervisor(config) =>
          /\ step = 0 => (pc = supervisor_role /\ stats'[1].agent = supervisor_role)
          /\ SubordinateStep =>
                 /\ pc' = supervisor_role
                 /\ step' < recursion_limit(config.complexity)]_vars

C13_Witness ==
    /\ has_supervisor(config)
    /\ Len(stats) = 3
    /\ stats[1].agent = supervisor_role
    /\ stats[2].agent \in Subordinates
    /\ stats[3].agent = supervisor_role

\* C14: the input assembled for a subordinate r holds no assistant turn and no
\* tool result of another role or of the supervisor; the entries of the shared
\* log it holds are exactly r's own assistant turns and the tool results that
\* answer their calls, and its directive is the latest human entry of the log.
C14_NoForeignTurns ==
    AssembledForSubordinate =>
        LET r == input[1] IN
        /\ \A i \in 1..Len(output) :
               /\ output[i].type = "ai" => output[i].name \in {r, "ContextProvider"}
               /\ output[i].type = "tool"
                     => output[i].tool_call_id \in OwnCallIds(messages, r)
        /\ SelectSeq(output, LAMBDA m : m \in Range(messages)) = OwnTurns(messages, r)
        /\ LET instruction == get_last_supervisor_instruction(messages)
           IN IF Missing(instruction) THEN NoDirective(output)
              ELSE DirectiveIs(output, instruction)

C14_Witness ==
    /\ AssembledForSubordinate
    /\ input = <<"r1">>
    /\ \E i \in 1..Len(messages) :
           messages[i].type = "tool" /\ messages[i].tool_call_id = "r2"
    /\ \E i \in 1..Len(messages) :
           messages[i].type = "ai" /\ messages[i].name = None
    /\ \E i \in 1..Len(output) : output[i].type = "tool"

\* C15 as stated: the input assembled for a subordinate shows the finding of
\* a role of the ledger if and only if that role is in the subordinate's
\* dependency list.
C15_ExactlyDependencyFindings ==
    AssembledForSubordinate =>
        \A k \in Keys(findings) :
            (k \in config.context_dependencies[input[1]])
                <=> Shows(Synthesized(output), Get(findings, k))

\* C15: the input assembled for a subordinate r has a ContextProvider entry
\* that lists exactly the findings of r's dependency roles, each cut to its
\* first 500 characters when longer; the finding of any other role is absent
\* from the input, except r's own, which is shown in full as prior work.
C15_DependencyFindingsAndOwn ==
    AssembledForSubordinate =>
        LET r == input[1]
            deps == config.context_dependencies[r]
            provided == SelectSeq(Synthesized(output),
                                  LAMBDA m : m.name = "ContextProvider")
            prior == SelectSeq(Synthesized(output), LAMBDA m : m.name = r)
        IN \A k \in Keys(findings) :
               LET text == Get(findings, k) IN
               /\ (k \in deps) <=> Shows(provided, LedgerEntry(k, text))
               /\ (k \in deps /\ Len(text) > TruncateAt) => ~Shows(provided, text)
               /\ (k \notin deps /\ k # r) => ~Shows(output, Kept(text))
               /\ (k = r) => Shows(prior, text)

C15_Witness ==
    /\ AssembledForSubordinate
    /\ input = <<"r2">>
    /\ config.context_dependencies["r2"] = {"r1"}
    /\ Keys(findings) = {"r1", "r2"}
    /\ Len(Get(findings, "r1")) > TruncateAt
    /\ Shows(Synthesized(output), LedgerEntry("r1", Get(findings, "r1")))
    /\ Shows(Synthesized(output), Get(findings, "r2"))

\* C16 as stated: the input assembled for the supervisor shows the finding of
\* every role of the ledger, shows the iteration count and the budget, and
\* holds no turn of the shared log.
C16_SupervisorSeesWholeLedger ==
    AssembledForSupervisor =>
        /\ \A k \in Keys(findings) : Shows(output, Get(findings, k))
        /\ Shows(output, ProgressLine)
        /\ NoLogTurn(output)

\* C16: the input assembled for the supervisor has a ledger entry for every
\* role of the ledger, whatever the dependency lists, showing the role's
\* finding cut to its first 500 characters when longer; it shows the iteration
\* count and the budget and holds no turn of the shared log.
C16_SupervisorSeesTruncatedLedger ==
    AssembledForSupervisor =>
        LET ledger == SelectSeq(output, LAMBDA m : m.name = "ResearchLedger") IN
        /\ Len(ledger) = 1
        /\ \A k \in Keys(findings) :
               /\ Shows(ledger, LedgerEntry(k, Get(findings, k)))
               /\ Len(Get(findings, k)) > TruncateAt => ~Shows(output, Get(findings, k))
        /\ Shows(output, ProgressLine)
        /\ NoLogTurn(output)

C16_Witness ==
    /\ AssembledForSupervisor
    /\ Keys(findings) = {"r1", "r2"}
    /\ Len(Get(findings, "r2")) > TruncateAt
    /\ \E j \in 1..Len(messages) : messages[j].type = "tool"
    /\ Shows(output, LedgerEntry("r1", Get(findings, "r1")))
    /\ Shows(output, LedgerEntry("r2", Get(findings, "r2")))

\* C17: the tool loop of one role turn makes at least 1 and at most 5
\* completion calls; it stops at the first response without tool calls, whose
\* content is the final answer, and when the 5th response still requests tool
\* calls it stops and the 5th response is the final answer.
C17_LoopBounds ==
    TurnDone =>
        LET answer == CHOOSE i \in NoToolCalls(input) :
                          \A j \in NoToolCalls(input) : i <= j
            first == IF answer > 5 THEN 5 ELSE answer
        IN /\ CompletionCalls >= 1
           /\ CompletionCalls <= 5
           /\ CompletionCalls = first
           /\ stats[1].iterations = first
           /\ Get(findings, config.agents[1]) = input[first].content

C17_Witness ==
    /\ TurnDone
    /\ Len(input) > 5
    /\ input[5].tool_calls # <<>>
    /\ CompletionCalls = 5
    /\ Get(findings, config.agents[1]) = input[5].content

\* C18: in a role turn every tool call a response requests is answered by
\* exactly one tool-result turn, in the order of the calls, carrying error text
\* exactly when the call raises or names a tool missing from the registry; the
\* calls after a failing one are still executed, the next completion call is
\* made (below the ceiling), and the turn ends with its finding stored.
C18_ToolErrorsContained ==
    TurnDone =>
        /\ Keys(findings) = {config.agents[1]}
        /\ Len(stats) = 1
        /\ \A i \in 1..Len(TurnEvents) :
               TurnEvents[i].type = "ai" =>
                   LET calls == TurnEvents[i].tool_calls IN
                   /\ i + Len(calls) <= Len(TurnEvents)
                   /\ \A j \in 1..Len(calls) :
                          /\ TurnEvents[i + j].type = "tool"
                          /\ TurnEvents[i + j].tool_call_id = calls[j].id
                          /\ IsErrorText(TurnEvents[i + j].content) <=> Failing(calls[j])
                          /\ Cardinality({n \in 1..Len(TurnEvents) :
                                             /\ TurnEvents[n].type = "tool"
                                             /\ TurnEvents[n].tool_call_id = calls[j].id}) = 1
                   /\ (calls # <<>> /\ ResponsesUpTo(i) < 5)
                          => /\ i + Len(calls) < Len(TurnEvents)
                             /\ TurnEvents[i + Len(calls) + 1].type = "ai"

C18_Witness ==
    /\ TurnDone
    /\ \E i \in 1..Len(TurnEvents) :
           /\ TurnEvents[i].type = "ai"
           /\ Len(TurnEvents[i].tool_calls) = 2
           /\ Failing(TurnEvents[i].tool_calls[1])
           /\ ~Failing(TurnEvents[i].tool_calls[2])
           /\ i + 3 <= Len(TurnEvents)
           /\ IsErrorText(TurnEvents[i + 1].content)
           /\ ~IsErrorText(TurnEvents[i + 2].content)
           /\ TurnEvents[i + 3].type = "ai"

\* C19: no finding of the ledger holds reasoning-delimited text: the final
\* answer of a turn is stored with its reasoning blocks removed (the ledger is
\* what the contexts of the other roles are assembled from).
C19_NoReasoningInFindings ==
    \A i \in 1..Len(findings) : ~HasReasoning(findings[i][2])

\* C20: with several threads calling send_request on one client, one thread
\* at a time is between taking the lock and returning, the ids written to
\* stdin are distinct, and a call that returns a result returns the result of
\* the response to its own request, whose id is the id of that request.
C20_SerializedAndMatched ==
    /\ Cardinality({t \in Threads : callers[t].pc # "idle"}) <= 1
    /\ \A t \in Threads : callers[t].pc # "idle" => client.lock = t
    /\ \A t, u \in Threads :
           \A i \in 1..Len(callers[t].log) : \A j \in 1..Len(callers[u].log) :
               (t # u \/ i # j) => callers[t].log[i].id # callers[u].log[j].id
    /\ \A t \in Threads : \A i \in 1..Len(callers[t].log) :
           callers[t].log[i].outcome = "result"
               => callers[t].log[i].result = callers[t].log[i].params

C20_Witness ==
    /\ callers["A"].log # <<>>
    /\ callers["A"].log[1].outcome = "timeout"
    /\ callers["B"].log # <<>>
    /\ callers["B"].log[1].outcome = "result"
    /\ callers["B"].log[1].id > callers["A"].log[1].id
    /\ \E i \in 1..Len(client.response_queue) :
           client.response_queue[i].id = callers["A"].log[1].id

\* C21: a call of send_request that leaves its wait loop without having taken
\* a response with its own id from the queue fails with the timeout failure,
\* which is neither a result nor the failure of an error response; and no
\* call stays in the wait loop forever.
C21_TimeoutDistinct ==
    /\ [][\A t \in Threads :
             Leaves(t) =>
                 /\ client'.lock = None
                 /\ IF client'.response_queue = client.response_queue
                    THEN /\ LastCall(t)'.outcome = "timeout"
                         /\ LastCall(t)'.result = None
                    ELSE /\ Head(client.response_queue).id = callers[t].id
                         /\ LastCall(t)'.outcome \in {"result", "error"}]_vars
    /\ \A t \in Threads : (callers[t].pc = "waiting") ~> (callers[t].pc = "idle")

C21_Witness ==
    /\ callers["A"].log # <<>>
    /\ callers["A"].log[1].outcome = "timeout"
    /\ \E i \in 1..Len(client.stdin) : client.stdin[i].id = callers["A"].log[1].id

\* C22: whatever way send_request fails during a tool invocation (timeout,
\* error response, broken pipe), call_tool does not raise: it returns an error
\* text, which the registered wrapper hands on as the tool's result, and the
\* client is left usable (lock free) for the next invocation.
C22_CallToolContainsFailures ==
    /\ \A c \in CompletedCalls :
           /\ ~c.returned.raised
           /\ mcp_tool_wrapper("t1", c.returned) = c.returned.value
           /\ c.outcome \in BridgeFailures
                 => c.returned.value = <<"Error calling tool", "t1", ":", c.outcome>>
           /\ c.outcome = "result" => c.returned.value = c.params
    /\ (\A t \in Threads : callers[t].pc = "idle") => client.lock = None

C22_Witness ==
    /\ \A t \in Threads : callers[t].pc = "idle"
    /\ {c.outcome : c \in CompletedCalls} = BridgeFailures

\* C23: a client moves only forward through Disconnected, Starting,
\* Connected, Closed and never leaves Closed; its shutdown closes stdin, then
\* requests termination, then waits, and kills the process only when the wait
\* for the termination has run out.
C23_ForwardAndOrderedShutdown ==
    [][/\ PhaseRank(client'.phase) >= PhaseRank(client.phase)
       /\ client.phase = "Closed" => client'.phase = "Closed"
       /\ client'.shutdown \in {<<>>,
                                 <<"close_stdin", "terminate", "wait">>,
                                 <<"close_stdin", "terminate", "wait_expired", "kill">>}]_vars

\* C24: when the budget guardrail of the router ends a run, the final state
\* holds a finding of every role that completed a turn before the stop, and
\* the stopping step adds nothing but the supervisor's own turn: findings are
\* unchanged and messages and stats keep all they held.
C24_HardStopKeepsFindings ==
    [][(pc = supervisor_role /\ pc' = END /\ iteration_count >= max_iterations)
       => /\ findings' = findings
          /\ Len(messages') = Len(messages) + 1
          /\ SubSeq(messages', 1, Len(messages)) = messages
          /\ messages'[Len(messages')].name = None
          /\ Len(stats') = Len(stats) + 1
          /\ SubSeq(stats', 1, Len(stats)) = stats
          /\ stats'[Len(stats')].agent = supervisor_role
          /\ \A i \in 1..Len(stats') :
                 stats'[i].agent # supervisor_role
                     => stats'[i].agent \in Keys(findings')]_vars

\* a run stopped by the budget with the findings of two roles in its state
C24_Witness ==
    /\ pc = END
    /\ iteration_count >= max_iterations
    /\ Keys(findings) = {"r1", "r2"}

\* C25: when a completion call raises during a turn, the run ends there: no
\* node runs afterwards, neither the failed one again nor another, and the
\* shared state is what it was before the failed turn.
C25_FailurePropagates ==
    [][/\ pc = "raised" => pc' = "raised"
       /\ pc' = "raised" => State' = State]_vars

\* a run ended by a raising completion call after a role had merged a finding
C25_Witness ==
    /\ pc = "raised"
    /\ findings # <<>>
    /\ Len(messages) > 2

C27_CounterResetOrAdd ==
    pc = "reduced" =>
        LET left == input[1]
            right == input[2]
            l == IF Missing(left) THEN 0 ELSE left
        IN IF Missing(right) THEN completed_branches = l
           ELSE /\ right = -1 => completed_branches = 0
                /\ right >= 0 => completed_branches = l + right

\* the reset signal applied to a counter that is not 0
C27_Witness ==
    /\ pc = "reduced"
    /\ input = <<2, -1>>
    /\ completed_branches = 0

\* C28: the decision of a reply is the one its decision line gives: the first
\* line starting with PARALLEL: if there is one, else the first line starting
\* with NEXT:, else the first non-empty line; a NEXT: line before a PARALLEL:
\* line does not decide.
C28_DecisionLineDecides ==
    output # <<>> =>
        output[1].delta.supervisor_decision
            = parse_decision(decision_line(input), subordinate_roles(config))

\* C30: a leading NEXT: in front of another NEXT: or PARALLEL: prefix is
\* stripped: the reply NEXT: PARALLEL: X gives the decision of PARALLEL: X,
\* and NEXT: NEXT: X that of NEXT: X.
C30_RepeatedPrefixStripped ==
    (/\ output # <<>>
     /\ Len(input) >= 2
     /\ Upper(input[1]) = "NEXT:"
     /\ Upper(input[2]) \in {"NEXT:", "PARALLEL:"})
        => output[1].delta.supervisor_decision
               = parse_decision(Tail(input), subordinate_roles(config))

C31_LatestNonAssistantEntry ==
    AssembledForSubordinate =>
        LET others == {i \in 1..Len(messages) : messages[i].type \notin {"system", "ai"}}
        IN IF others = {} THEN NoDirective(output)
           ELSE DirectiveIs(output, messages[LastOf(others)].content)

\* C31 amended: the directive in a subordinate's input is the text of the
\* latest human entry of the log, tool results after it being passed over,
\* and there is no directive when the log has no human entry.
C31_LatestHumanEntry ==
    AssembledForSubordinate =>
        LET humans == {i \in 1..Len(messages) : messages[i].type = "human"}
        IN IF humans = {} THEN NoDirective(output)
           ELSE DirectiveIs(output, messages[LastOf(humans)].content)

\* a log whose latest human entry is followed by a tool result
C31_Witness ==
    /\ AssembledForSubordinate
    /\ \E i \in 1..Len(messages) : \E j \in (i + 1)..Len(messages) :
           /\ messages[i].type = "human"
           /\ messages[i].content = <<"refine">>
           /\ messages[j].type = "tool"
    /\ DirectiveIs(output, <<"refine">>)

\* C32: pruning a text without reasoning tags returns it unchanged; the
\* result never holds an opening tag; a text with one opening tag loses the
\* block from the tag to its first matching closing tag and keeps the text
\* around it, or, when the tag is not closed, keeps the text before the tag;
\* of two closed blocks one after the other both are removed.
C32_PruneReasoning ==
    pc = "pruned" =>
        /\ OpenAt(input) = {} => output = input
        /\ OpenAt(output) = {}
        /\ \A i \in OpenAt(input) :
               /\ (OpenAt(input) = {i} /\ ClosesOf(input, i) = {})
                      => output = SubSeq(input, 1, i - 1)
               /\ (OpenAt(input) = {i} /\ ClosesOf(input, i) # {})
                      => \E j \in ClosesOf(input, i) :
                             /\ \A k \in ClosesOf(input, i) : j <= k
                             /\ output = SubSeq(input, 1, i - 1)
                                          \o SubSeq(input, j + 1, Len(input))
        /\ \A t1 \in ReasoningTags, t2 \in ReasoningTags :
               (/\ Len(input) = 4
                /\ input[1] = t1 /\ ClosesOf(input, 1) = {2}
                /\ input[3] = t2 /\ ClosesOf(input, 3) = {4})
                   => output = <<>>

\* a closed block in the middle of a text is removed
C32_Witness ==
    /\ pc = "pruned"
    /\ input = <<"a", "[thought]", "[/thought]", "b">>
    /\ output = <<"a", "b">>

\* C33: every id send_request assigns is one more than the last, so ids grow
\* and none is used twice; a call returns a result only when the response it
\* takes from the queue has the id assigned to it; a response with another
\* id is taken from the queue and the call keeps waiting.
C33_IdsIncreaseAndMatch ==
    [][/\ client'.request_id >= client.request_id
       /\ \A t \in Threads :
              /\ (callers[t].pc = "locked" /\ callers'[t].pc = "assigned")
                     => client'.request_id = client.request_id + 1
              /\ (callers[t].pc = "assigned" /\ callers'[t].pc = "waiting")
                     => /\ callers'[t].id = client.request_id
                        /\ \A u \in Threads : \A i \in 1..Len(callers[u].log) :
                               callers[u].log[i].id < callers'[t].id
              /\ (Leaves(t) /\ LastCall(t)'.outcome = "result")
                     => /\ Head(client.response_queue).id = callers[t].id
                        /\ LastCall(t)'.id = callers[t].id
                        /\ LastCall(t)'.result = Head(client.response_queue).result
              /\ (/\ callers[t].pc = "waiting"
                  /\ client.response_queue # <<>>
                  /\ Head(client.response_queue).id # callers[t].id
                  /\ client'.response_queue # client.response_queue)
                     => /\ callers' = callers
                        /\ client'.response_queue = Tail(client.response_queue)
                           \/ client'.response_queue
                                  = Append(client.response_queue,
                                           client'.response_queue[Len(client'.response_queue)])]_vars

\* a call returned its own result after the response to an earlier request,
\* which had timed out, was taken from the queue unused
C33_Witness ==
    /\ callers["A"].log # <<>>
    /\ callers["A"].log[1].outcome = "timeout"
    /\ callers["B"].log # <<>>
    /\ callers["B"].log[1].outcome = "result"
    /\ callers["B"].log[1].id = callers["A"].log[1].id + 1
    /\ \A i \in 1..Len(client.stdin) : client.stdin[i].id # callers["A"].log[1].id
    /\ \A i \in 1..Len(client.stdout) : client.stdout[i].id # callers["A"].log[1].id
    /\ \A i \in 1..Len(client.response_queue) :
           client.response_queue[i].id # callers["A"].log[1].id

C35_IterationCountIsMaximum ==
    [][/\ iteration_count' >= iteration_count
       /\ \E i \in 1..Len(input) :
              /\ input' = Remove(input, i)
              /\ iteration_count' =
                     Max(iteration_count, input[i].iteration_count)]_vars

\* two deltas are merged, the second reporting no more than the value the
\* first one left
C35_Witness ==
    /\ pc = "fan-out"
    /\ step = 2
    /\ Snapshot.iteration_count = 1
    /\ BranchDeltas[2].iteration_count = 2
    /\ iteration_count = 2

\* C37: once every branch of a fan-out dispatched at iteration_count = k has
\* merged, iteration_count is k + 1 whatever the number of branches.
C37_FanOutCostsOneUnit ==
    AllMerged => iteration_count = Snapshot.iteration_count + 1

\* every delta of a fan-out of at least two branches reports k + 1 and all of
\* them are merged
C37_Witness ==
    /\ AllMerged
    /\ Len(BranchDeltas) >= 2
    /\ \A i \in 1..Len(BranchDeltas) :
           BranchDeltas[i].iteration_count = Snapshot.iteration_count + 1
    /\ iteration_count # Snapshot.iteration_count + Len(BranchDeltas)
    /\ Snapshot.iteration_count = 0


\* C36: every role that has completed a turn has in findings the final answer
\* of its latest turn; a step leaves the findings of the roles that did not
\* run in it as they were, the role that ran gets the final answer of that
\* turn, and no role ever leaves findings.
C36_FindingsHoldLatestAnswer ==
    /\ [](\A r \in Range(config.agents) \ {supervisor_role} :
             TurnsOf(r) > 0 =>
                 /\ r \in Keys(findings)
                 /\ Get(findings, r) =
                        messages[LastOf(RepliesOf(r, messages))].content)
    /\ [][/\ Keys(findings) \subseteq Keys(findings')
          /\ \A r \in Keys(findings') :
                 IF RoleRan(r)
                 THEN Get(findings', r) = messages'[Len(messages')].content
                 ELSE r \in Keys(findings)
                      /\ Get(findings', r) = Get(findings, r)]_vars

\* a role has answered twice, differently, and findings holds the later answer
\* next to the finding of another role
C36_Witness ==
    /\ TurnsOf("r2") >= 2
    /\ \E i \in RepliesOf("r2", messages) : messages[i].content = <<"answer">>
    /\ messages[LastOf(RepliesOf("r2", messages))].content = <<"revised">>
    /\ Get(findings, "r2") = <<"revised">>
    /\ "r1" \in Keys(findings)


\* C38: in a run of a plan with a supervisor the subordinates complete at most
\* max_iterations turns and the supervisor at most max_iterations + 1: it is
\* invoked once more when iteration_count has reached max_iterations, and the
\* router then ends the run whatever that reply decided.
C38_TurnsWithinBudget ==
    /\ [](has_supervisor(config) =>
             /\ SubordinateTurns <= max_iterations
             /\ SubordinateTurns = iteration_count
             /\ TurnsOf(supervisor_role) <= max_iterations + 1
             /\ TurnsOf(supervisor_role) <= SubordinateTurns + 1)
    /\ [][(has_supervisor(config) /\ iteration_count >= max_iterations)
             => /\ pc = supervisor_role
                /\ TurnsOf(supervisor_role)' = TurnsOf(supervisor_role) + 1
                /\ SubordinateTurns' = SubordinateTurns
                /\ pc' = END]_vars

\* the budget is used up, the supervisor has run once more and named a
\* subordinate, and the run has ended without dispatching it
C38_Witness ==
    /\ has_supervisor(config)
    /\ pc = END
    /\ SubordinateTurns = max_iterations
    /\ TurnsOf(supervisor_role) = max_iterations + 1
    /\ supervisor_decision \in Subordinates
    /\ messages[Len(messages)].name = None


\* C39: once a request has timed out the lock is free again whenever no call
\* is under way; a response to a timed-out request is never what a later call
\* returns: a waiting call that takes it from the queue drops it and goes on
\* waiting.
C39_TimeoutFreesLockAndLateReplyDropped ==
    /\ []((TimedOutIds # {} /\ \A t \in Threads : callers[t].pc = "idle")
              => client.lock = None)
    /\ [][\A t \in Threads :
             /\ (Leaves(t) /\ LastCall(t)'.outcome = "timeout")
                    => (client'.lock = None /\ callers[t].id \in TimedOutIds')
             /\ (Leaves(t) /\ LastCall(t)'.outcome \in {"result", "error"})
                    => Head(client.response_queue).id \notin TimedOutIds
             /\ (/\ callers[t].pc = "waiting"
                 /\ client.response_queue # <<>>
                 /\ Head(client.response_queue).id \in TimedOutIds
                 /\ Len(client'.response_queue) < Len(client.response_queue))
                    => /\ callers'[t] = callers[t]
                       /\ client'.lock = client.lock
                       /\ client'.response_queue
                              = Tail(client.response_queue)]_vars

\* a thread whose first request timed out made a second one that returned its
\* own result, the response to the first having been taken from the queue
C39_Witness ==
    /\ Len(callers["A"].log) >= 2
    /\ callers["A"].log[1].outcome = "timeout"
    /\ callers["A"].log[2].outcome = "result"
    /\ callers["A"].log[2].id > callers["A"].log[1].id
    /\ callers["A"].log[2].result = callers["A"].log[2].params
    /\ client.lock = None
    /\ \A i \in 1..Len(client.stdin) : client.stdin[i].id # callers["A"].log[1].id
    /\ \A i \in 1..Len(client.stdout) : client.stdout[i].id # callers["A"].log[1].id
    /\ \A i \in 1..Len(client.response_queue) :
           client.response_queue[i].id # callers["A"].log[1].id


\* C40: when the 5th response of a turn still requests tool calls, the turn
\* ends with those calls executed: their tool-result turns, one per call and
\* in order, are the last turns appended to the shared log, after the 5th
\* response; exactly 5 completion calls were made, and the input of the last
\* one holds none of those results.
C40_CeilingCallsExecutedUnseen ==
    (TurnDone /\ CeilingReached(input)) =>
        LET calls == input[5].tool_calls
            n == Len(TurnEvents)
            k == Len(calls)
        IN /\ n > k
           /\ TurnEvents[n - k].type = "ai"
           /\ TurnEvents[n - k].content = input[5].content
           /\ TurnEvents[n - k].tool_calls = calls
           /\ \A j \in 1..k :
                  /\ TurnEvents[n - k + j].type = "tool"
                  /\ TurnEvents[n - k + j].tool_call_id = calls[j].id
           /\ CompletionCalls = 5
           /\ stats[1].iterations = 5
           /\ sent_messages # <<>>
           /\ \A i \in 1..Len(sent_messages) : \A j \in 1..k :
                  sent_messages[i].tool_call_id # calls[j].id

\* a turn whose 5th response requested two tool calls: the log ends with the
\* result of the second, and the model was called 5 times
C40_Witness ==
    /\ TurnDone
    /\ CeilingReached(input)
    /\ Len(input[5].tool_calls) = 2
    /\ messages[Len(messages)].type = "tool"
    /\ messages[Len(messages)].tool_call_id = input[5].tool_calls[2].id
    /\ messages[Len(messages) - 2].type = "ai"
    /\ stats[1].iterations = 5

====
